---- MODULE Spec2Model ----
(***************************************************************************)
(* Bar store (StockDataService.fetchStockData and its per-symbol cache),   *)
(* the Heikin-Ashi and anchored-VWAP transforms, and the StockChart        *)
(* component that feeds them to the renderer.                              *)
(*                                                                         *)
(* Two StockDataService singletons exist in the repository:                *)
(*   "services" = src/src/services/stockDataService.ts (slices the network *)
(*                result to HISTORY_LIMIT),                                *)
(*   "root"     = src/src/stockDataService.ts (returns the whole result;   *)
(*                the one StockChart imports).                             *)
(* Each has its own cachedData map.                                        *)
(*                                                                         *)
(* Numbers.  Source prices and volumes are integers here.  A Heikin-Ashi   *)
(* price x is held as 4*x (quarters of the input unit): its divisions by 4 *)
(* and 2 are exact in binary floating point.  The anchored VWAP is         *)
(* computed in IEEE 754 doubles as the code computes it, every operation   *)
(* rounded to nearest, ties to even: a double is kept as m * 2^e with m an *)
(* integer of any size (a sequence of 15-bit limbs).  A bar's time is the  *)
(* number of its UTC day since 1970-01-01, which is what the YYYY-MM-DD    *)
(* string made by formatDate denotes.  The provider's millisecond          *)
(* timestamps are held in hours (ms / 3600000) to stay within 32 bits.     *)
(***************************************************************************)
EXTENDS Integers, Sequences, FiniteSets, TLC

VARIABLES
    cachedData,   \* [service -> Map symbol -> bar sequence]  (this.cachedData)
    requests,     \* [service -> [symbol -> number of fetch(url) calls issued]]
    pending,      \* fetchStockData calls suspended at an await, in start order
    nCalls,       \* number of fetchStockData calls started so far
    returned,     \* how the most recently settled fetchStockData call settled
    succeeded,    \* <<service, symbol>> pairs for which a call has resolved
    failed,       \* <<service, symbol>> pairs for which a call has rejected
    stored,       \* [service -> [symbol -> number of arrays cachedData.set
                  \* has stored under the symbol so far]]: the array of an
                  \* entry is known by its symbol and this number
    mounted,      \* a StockChart is mounted
    symbol,       \* its symbol prop
    chartInstance, \* number of StockChart instances mounted so far
    chartAwaits,  \* settled service promises that StockChart.fetchStockData
                  \* awaits and has yet to resume on, in settling order
    appAwaits,    \* the same for the fetchStockData calls of App.getAIOpinion
    scheduled,    \* the state update setStockData has queued for the next
                  \* render of the mounted instance
    stockData,    \* the stockData state the last render committed
    stockDataRef, \* which array that is
    effectDue,    \* the [stockData] effect of the last render has yet to run
    series,       \* what the chart of the mounted instance holds
    haIn,         \* argument of calculateHeikinAshi (transform specification)
    haOut,        \* its result
    haDone,       \* the transform has been applied to haIn
    vwIn,         \* data argument of calculateAnchoredVWAP
    vwDays,       \* its anchorDays argument
    vwOut,        \* its result
    vwDone,       \* the transform has been applied to vwIn and vwDays
    opinions,     \* useAIOpinions: the opinions state
    isLoading,    \* useAIOpinions: the isLoading state
    error,        \* useAIOpinions: the error state ("null" for null)
    apiEndpoint,  \* [model name -> apiEndpoint of that model's config object]
    aiPending,    \* getAIOpinion calls suspended at an await, in start order
    aiNCalls,     \* number of fetchOpinion / getAIOpinion calls started
    aiRequested,  \* [model name -> the URLs requests were sent to, in order]
    aiReturned,   \* how the most recently finished getAIOpinion call finished
    hookAwaits,   \* settled getAIOpinion promises that fetchOpinion awaits
                  \* and has yet to resume on, in settling order
    hookReturned, \* how the most recently finished fetchOpinion call finished
    fullUserPrompt \* the prompt built last (App.getAIOpinion, getAIOpinion)

vars == <<cachedData, requests, pending, nCalls, returned, succeeded, failed,
          stored,
          mounted, symbol, chartInstance, chartAwaits, appAwaits, scheduled,
          stockData, stockDataRef, effectDue, series, haIn, haOut, haDone,
          vwIn, vwDays, vwOut, vwDone,
          opinions, isLoading, error, apiEndpoint, aiPending, aiNCalls,
          aiRequested, aiReturned, hookAwaits, hookReturned,
          fullUserPrompt>>

storeVars == <<cachedData, requests, pending, nCalls, returned, succeeded,
               failed, stored>>
chartVars == <<mounted, symbol, chartInstance, chartAwaits, appAwaits,
               scheduled, stockData, stockDataRef, effectDue, series>>
\* The component and its chart, without the promises it awaits.
componentVars == <<mounted, symbol, chartInstance, scheduled, stockData,
                   stockDataRef, effectDue, series>>
haVars    == <<haIn, haOut, haDone>>
vwapVars  == <<vwIn, vwDays, vwOut, vwDone>>
hookVars  == <<opinions, isLoading, error>>
aiVars    == <<opinions, isLoading, error, apiEndpoint, aiPending, aiNCalls,
               aiRequested, aiReturned, hookAwaits, hookReturned,
               fullUserPrompt>>

---------------------------------------------------------------------------
(* Bounds *)

MaxCalls == 2      \* fetchStockData calls per behaviour
MaxExtra == 1      \* provider results run to HISTORY_LIMIT + MaxExtra bars
MaxLen   == 3      \* longest input of the transform specification
MaxPrice == 2      \* prices of the transform specification are 1..MaxPrice
MaxOpinionCalls == 2   \* fetchOpinion / getAIOpinion calls per behaviour

(* Program constants *)

HISTORY_LIMIT == 300

Symbols  == {"SMH", "SPY"}

\* Two symbols that differ only in letter case, and every symbol there is.
CaseSymbols == {"SMH", "smh"}
AllSymbols  == Symbols \cup CaseSymbols
Services == {"services", "root"}

---------------------------------------------------------------------------
(* Arithmetic helpers *)

Max2(a, b) == IF a >= b THEN a ELSE b
Min2(a, b) == IF a <= b THEN a ELSE b
Max3(a, b, c) == Max2(a, Max2(b, c))
Min3(a, b, c) == Min2(a, Min2(b, c))

\* Array.prototype.slice(-n) for n > 0: the last min(n, length) elements.
SliceLast(arr, n) ==
    SubSeq(arr, Max2(1, Len(arr) - n + 1), Len(arr))

\* Array.prototype.slice(from) with a 0-based, non-negative from.
SliceFrom(arr, from) == SubSeq(arr, from + 1, Len(arr))

---------------------------------------------------------------------------
(* Natural numbers of any size: little-endian sequences of 15-bit limbs,   *)
(* the highest limb not 0; <<>> is 0.                                      *)

Limb == 32768

RECURSIVE StripHigh(_)
StripHigh(s) ==
    IF s = <<>> THEN <<>>
    ELSE IF s[Len(s)] = 0 THEN StripHigh(SubSeq(s, 1, Len(s) - 1))
    ELSE s

\* The number n, 0 <= n < 2^31.
BigOf(n) == StripHigh(<<n % Limb, (n \div Limb) % Limb, n \div (Limb * Limb)>>)

RECURSIVE MulCarry(_, _, _, _)
MulCarry(s, v, i, c) ==
    IF i > Len(s) THEN BigOf(c)
    ELSE LET t == s[i] * v + c
         IN  <<t % Limb>> \o MulCarry(s, v, i + 1, t \div Limb)

\* s * v for 0 <= v < 2^16
MulSmall(s, v) == StripHigh(MulCarry(s, v, 1, 0))

RECURSIVE AddCarry(_, _, _, _)
AddCarry(a, b, i, c) ==
    IF i > Len(a) /\ i > Len(b) THEN (IF c = 0 THEN <<>> ELSE <<c>>)
    ELSE LET t == (IF i <= Len(a) THEN a[i] ELSE 0)
                  + (IF i <= Len(b) THEN b[i] ELSE 0) + c
         IN  <<t % Limb>> \o AddCarry(a, b, i + 1, t \div Limb)

AddBig(a, b) == AddCarry(a, b, 1, 0)

Zeros(n) == [i \in 1..n |-> 0]

\* s * 2^k
ShiftLeft(s, k) ==
    IF s = <<>> THEN <<>>
    ELSE Zeros(k \div 15) \o MulSmall(s, 2 ^ (k % 15))

\* s * v for 0 <= v < 2^30
MulInt(s, v) ==
    IF v < 2 * Limb THEN MulSmall(s, v)
    ELSE AddBig(ShiftLeft(MulSmall(s, v \div Limb), 15), MulSmall(s, v % Limb))

\* One limb of a long division by d < 2^30, bit by bit: the quotient digit
\* and the remainder of r * 2^15 + limb, for r < d.
RECURSIVE DivBits(_, _, _, _, _)
DivBits(r, limb, d, j, q) ==
    IF j < 0 THEN [q |-> q, r |-> r]
    ELSE LET t == 2 * r + ((limb \div (2 ^ j)) % 2)
         IN  IF t >= d THEN DivBits(t - d, limb, d, j - 1, 2 * q + 1)
             ELSE DivBits(t, limb, d, j - 1, 2 * q)

\* The quotient digit and the remainder of r * 2^15 + limb by d, for r < d.
DivDigit(r, limb, d) ==
    IF d < 2 * Limb
    THEN [q |-> (r * Limb + limb) \div d, r |-> (r * Limb + limb) % d]
    ELSE DivBits(r, limb, d, 14, 0)

\* The long division of limbs i, i - 1, ..., 1 of s by d, with r carried in
\* from the limbs above.
RECURSIVE DivFrom(_, _, _, _)
DivAppend(rest, q) == [q |-> Append(rest.q, q), r |-> rest.r]
DivStep(s, d, i, digit) == DivAppend(DivFrom(s, d, i - 1, digit.r), digit.q)
DivFrom(s, d, i, r) ==
    IF i = 0 THEN [q |-> <<>>, r |-> r]
    ELSE DivStep(s, d, i, DivDigit(r, s[i], d))

\* Quotient and remainder of s by d, for 0 < d < 2^30
StripQuotient(dv) == [q |-> StripHigh(dv.q), r |-> dv.r]
DivInt(s, d) == StripQuotient(DivFrom(s, d, Len(s), 0))

RECURSIVE BitLenInt(_)
BitLenInt(n) == IF n = 0 THEN 0 ELSE 1 + BitLenInt(n \div 2)

BitLen(s) ==
    IF s = <<>> THEN 0 ELSE 15 * (Len(s) - 1) + BitLenInt(s[Len(s)])

\* s \div 2^k, and whether s % 2^k is not 0: n whole limbs are dropped,
\* then the rest is divided.
Shifted(dv, lost) == [q |-> dv.q, inexact |-> dv.r # 0 \/ lost]
ShiftRightLimbs(s, k, n) ==
    Shifted(DivInt(SubSeq(s, n + 1, Len(s)), 2 ^ (k % 15)),
            \E i \in 1..n : s[i] # 0)
ShiftRight(s, k) == ShiftRightLimbs(s, k, Min2(k \div 15, Len(s)))

IsOdd(s) == s # <<>> /\ s[1] % 2 = 1

RECURSIVE TrailingZeros(_)
TrailingZeros(n) == IF n % 2 = 1 THEN 0 ELSE 1 + TrailingZeros(n \div 2)

RECURSIVE LowZeroLimbs(_, _)
LowZeroLimbs(s, i) == IF s[i] # 0 THEN i - 1 ELSE LowZeroLimbs(s, i + 1)

---------------------------------------------------------------------------
(* IEEE 754 doubles that are not negative: the finite ones are m * 2^e     *)
(* with m odd and below 2^53, or 0 (m = <<>>, e = 0); NaN and Infinity.    *)
(* Exponents stay far from the ends of the double range here.              *)

DZero == [kind |-> "finite", m |-> <<>>, e |-> 0]
DNaN == [kind |-> "NaN", m |-> <<>>, e |-> 0]
DInfinity == [kind |-> "Infinity", m |-> <<>>, e |-> 0]

\* m * 2^e with the factors of two of m moved to the exponent: m # 0 ends
\* in n limbs that are 0 and then tz bits that are 0.
CanonicalBits(m, e, n, tz) ==
    [kind |-> "finite",
     m |-> DivInt(SubSeq(m, n + 1, Len(m)), 2 ^ tz).q,
     e |-> e + 15 * n + tz]
CanonicalLimbs(m, e, n) == CanonicalBits(m, e, n, TrailingZeros(m[n + 1]))
Canonical(m, e) ==
    IF m = <<>> THEN DZero ELSE CanonicalLimbs(m, e, LowZeroLimbs(m, 1))

\* The double nearest to (m + f) * 2^e, ties to even, where 0 <= f < 1, and
\* f > 0 exactly when sticky.  An m of n > 53 bits is cut to its 54 high
\* bits g.q, then to its 53 high bits q: the result is q, or q + 1 when the
\* bit cut last is 1 (half) and what is below it is not 0 or q is odd.
RoundUp(q, half, below, e) ==
    Canonical(IF half /\ (below \/ IsOdd(q)) THEN AddBig(q, <<1>>) ELSE q, e)
RoundGuard(g, e, sticky) ==
    RoundUp(ShiftRight(g.q, 1).q, IsOdd(g.q), g.inexact \/ sticky, e)
RoundBits(m, e, sticky, n) ==
    IF n <= 53 THEN Canonical(m, e)
    ELSE RoundGuard(ShiftRight(m, n - 54), e + n - 53, sticky)
RoundToDouble(m, e, sticky) == RoundBits(m, e, sticky, BitLen(m))

\* The double of the integer n, 0 <= n < 2^31
DoubleOf(n) == Canonical(BigOf(n), 0)

\* x * v in doubles, v an integer, 0 <= v < 2^30
DoubleTimes(x, v) ==
    IF x.kind = "NaN" THEN DNaN
    ELSE IF x.kind = "Infinity" THEN (IF v = 0 THEN DNaN ELSE DInfinity)
    ELSE RoundToDouble(MulInt(x.m, v), x.e, FALSE)

\* x + y in doubles: the mantissas are brought to the lower exponent e,
\* added and rounded.
PlusAligned(x, y, e) ==
    RoundToDouble(AddBig(ShiftLeft(x.m, x.e - e), ShiftLeft(y.m, y.e - e)),
                  e, FALSE)
DoublePlus(x, y) ==
    IF x.kind = "NaN" \/ y.kind = "NaN" THEN DNaN
    ELSE IF x.kind = "Infinity" \/ y.kind = "Infinity" THEN DInfinity
    ELSE IF x.m = <<>> THEN y
    ELSE IF y.m = <<>> THEN x
    ELSE PlusAligned(x, y, Min2(x.e, y.e))

\* x / d in doubles, d an integer, 0 <= d < 2^30: the mantissa is scaled by
\* 2^s so that the quotient has 56 bits or more, divided and rounded.
OverRounded(dv, e) == RoundToDouble(dv.q, e, dv.r # 0)
OverScaled(x, d, s) == OverRounded(DivInt(ShiftLeft(x.m, s), d), x.e - s)
DoubleOver(x, d) ==
    IF x.kind = "NaN" THEN DNaN
    ELSE IF x.kind = "Infinity" THEN DInfinity
    ELSE IF d = 0 THEN (IF x.m = <<>> THEN DNaN ELSE DInfinity)
    ELSE IF x.m = <<>> THEN DZero
    ELSE OverScaled(x, d, Max2(0, 56 + BitLenInt(d) - BitLen(x.m)))

---------------------------------------------------------------------------
(* The market-data provider: what a response may carry. *)

BasePrice(s) == IF s = "SMH" THEN 10 ELSE 20

\* The i-th raw record of a provider result for symbol s: a timestamp four
\* hours into its UTC day, and integer o/h/l/c/v.  Closes are
\* above, below and equal to opens in turn; some volumes are 0.
RawItem(s, i) ==
    LET o == BasePrice(s) + (i % 3)
        c == BasePrice(s) + ((2 * i) % 3)
    IN  [t |-> (19722 + i) * 24 + 4,
         o |-> o, h |-> Max2(o, c) + 1, l |-> Min2(o, c) - 1, c |-> c,
         v |-> 100 * (i % 4)]

RawResults(s, L) == [i \in 1..L |-> RawItem(s, i)]

ResultLengths == {0, 1} \cup {HISTORY_LIMIT + k : k \in 1..MaxExtra}

\* data.results is either an array or something else (undefined).
ResultsFields(s) ==
    {[isArray |-> FALSE, items |-> <<>>]} \cup
    {[isArray |-> TRUE, items |-> RawResults(s, L)] : L \in ResultLengths}

\* Parsed response bodies: a success envelope with any results field, or an
\* error envelope, with or without a results list.
Bodies(s) ==
    [status : {"OK"}, results : ResultsFields(s)] \cup
    [status : {"ERROR"},
     results : {[isArray |-> FALSE, items |-> <<>>],
                [isArray |-> TRUE, items |-> RawResults(s, 1)]}]

\* How `await fetch(url)` may settle: rejected (network failure), or resolved
\* with a response whose ok flag is set or not.
FetchAnswers ==
    {[netOk |-> FALSE, ok |-> FALSE]} \cup [netOk : {TRUE}, ok : BOOLEAN]

\* How `await response.json()` may settle: rejected (the body is not JSON), or
\* resolved with a parsed body.
JsonAnswers(s) ==
    {[parseOk |-> FALSE, body |-> [status |-> "none",
                                  results |-> [isArray |-> FALSE, items |-> <<>>]]]}
    \cup [parseOk : {TRUE}, body : Bodies(s)]

---------------------------------------------------------------------------
(* StockDataService *)

\* formatDate(new Date(t)): toISOString().split('T')[0] is the UTC calendar
\* day of the timestamp t.
formatDate(t) == t \div 24

\* data.results.map(item => ({time, open, high, low, close, volume}))
formattedData(results) ==
    [i \in 1..Len(results) |->
        [time   |-> formatDate(results[i].t),
         open   |-> results[i].o,
         high   |-> results[i].h,
         low    |-> results[i].l,
         close  |-> results[i].c,
         volume |-> results[i].v]]

\* Variant: the key is the symbol in upper case.
cacheKey_upperCase(s) == IF s = "smh" THEN "SMH" ELSE s

\* The key under which symbol s is looked up and stored in the Map: the
\* string as supplied.
cacheKey(s) == s

\* this.cachedData.has(symbol)
has(svc, s) == cacheKey(s) \in DOMAIN cachedData[svc]

\* this.cachedData.get(symbol), when has(symbol)
get(svc, s) == cachedData[svc][cacheKey(s)]

\* Variant: the formatted data is returned without being cached.
set_forgets(svc, s, value) == cachedData[svc]

\* this.cachedData.set(symbol, value), as the new map of service svc
set(svc, s, value) ==
    [k \in DOMAIN cachedData[svc] \cup {cacheKey(s)} |->
        IF k = cacheKey(s) THEN value ELSE cachedData[svc][k]]

\* What the network path returns once formattedData is cached: the services
\* version returns formattedData.slice(-HISTORY_LIMIT), the root version
\* returns formattedData.
NetworkReturn(svc, formatted) ==
    IF svc = "services" THEN SliceLast(formatted, HISTORY_LIMIT) ELSE formatted

\* Variant: the error envelope is not looked at.
BodyFailure_noErrorCheck(body) ==
    IF ~body.results.isArray THEN "notAList" ELSE "none"

\* The checks made on the parsed body, in the code's order: "none" when the
\* body passes, else the cause of the throw.
BodyFailure(body) ==
    IF body.status = "ERROR" THEN "errorPayload"
    ELSE IF ~body.results.isArray THEN "notAList"
    ELSE "none"

\* The check made on the response: "none" when response.ok.
ResponseFailure(ok) == IF ~ok THEN "httpStatus" ELSE "none"

\* What a call was answered with: nothing (cache hit), a settled fetch, or
\* a settled fetch and a settled json().
NoAnswer == [netOk |-> TRUE, ok |-> TRUE, parseOk |-> TRUE,
             status |-> "none", isArray |-> TRUE]
FetchAnswer(netOk, ok) == [NoAnswer EXCEPT !.netOk = netOk, !.ok = ok]
JsonAnswer(parseOk, body) ==
    IF parseOk
    THEN [NoAnswer EXCEPT !.status = body.status,
                          !.isArray = body.results.isArray]
    ELSE [NoAnswer EXCEPT !.parseOk = FALSE]

\* Records of settled calls.  sent is the number of fetch(url) calls the
\* call made, viaCache whether it returned from the cache check.
NoReturn ==
    [svc |-> "none", symbol |-> "none", status |-> "none", cause |-> "none",
     value |-> <<>>, sent |-> 0, viaCache |-> FALSE, chart |-> FALSE,
     inst |-> 0, asks |-> FALSE, answer |-> NoAnswer]

Resolved(call, value, viaCache, answer) ==
    [svc |-> call.svc, symbol |-> call.symbol, status |-> "resolved",
     cause |-> "none", value |-> value, sent |-> call.sent,
     viaCache |-> viaCache, chart |-> call.chart, inst |-> call.inst,
     asks |-> call.asks, answer |-> answer]

Rejected(call, cause, answer) ==
    [svc |-> call.svc, symbol |-> call.symbol, status |-> "rejected",
     cause |-> cause, value |-> <<>>, sent |-> call.sent,
     viaCache |-> FALSE, chart |-> call.chart, inst |-> call.inst,
     asks |-> call.asks, answer |-> answer]

Remove(seq, i) == SubSeq(seq, 1, i - 1) \o SubSeq(seq, i + 1, Len(seq))

---------------------------------------------------------------------------
(* Transforms *)

\* calculateHeikinAshi: data.map((d, i, arr) => ...).  Prices of the result
\* are in quarters: 4 * ((o+h+l+c)/4) and 4 * ((a+b)/2).
\* Variant: the close counted twice in place of the open.
haClose_weighted(d) == d.high + d.low + 2 * d.close

\* const haClose = (d.open + d.high + d.low + d.close) / 4
haClose(d) == d.open + d.high + d.low + d.close

\* const haOpen = i === 0 ? d.open : (arr[i-1].open + arr[i-1].close) / 2
\* (i is 1-based here; arr is the array map() was called on)
haOpen(arr, i) ==
    IF i = 1 THEN 4 * arr[i].open
    ELSE 2 * (arr[i-1].open + arr[i-1].close)

\* Variant: the high is not widened to the derived open and close.
haHigh_sourceOnly(d, o, c) == 4 * d.high

\* const haHigh = Math.max(d.high, haOpen, haClose)
haHigh(d, o, c) == Max3(4 * d.high, o, c)

\* const haLow = Math.min(d.low, haOpen, haClose)
haLow(d, o, c) == Min3(4 * d.low, o, c)

\* The object the map callback returns for index i.
haBar(arr, i) ==
    LET d == arr[i]
        o == haOpen(arr, i)
        c == haClose(d)
    IN  [time |-> d.time, open |-> o, high |-> haHigh(d, o, c),
         low |-> haLow(d, o, c), close |-> c, volume |-> d.volume]

\* Variant: the seed bar is left out of the result.
calculateHeikinAshi_skipFirst(data) ==
    [i \in 1..(Len(data) - 1) |-> haBar(data, i + 1)]

calculateHeikinAshi(data) == [i \in 1..Len(data) |-> haBar(data, i)]

\* The accumulators cumulativeTPV (a double) and cumulativeVolume (an
\* integer, which doubles hold exactly) before the first bar of the map.
NoVolumeYet == [tpv |-> DZero, vol |-> 0]

\* Variant: the typical price is taken to be the close.
typicalPrice_closeOnly(d) == DoubleOf(d.close)

\* const typicalPrice = (d.high + d.low + d.close) / 3
typicalPrice(d) == DoubleOver(DoubleOf(d.high + d.low + d.close), 3)

\* Variant: nothing is accumulated; each bar starts from 0 again.
VWAPStep_noAccumulate(d, acc) ==
    [tpv |-> DoubleTimes(typicalPrice(d), d.volume), vol |-> d.volume]

\* cumulativeTPV += typicalPrice * d.volume; cumulativeVolume += d.volume
VWAPStep(d, acc) ==
    [tpv |-> DoublePlus(acc.tpv, DoubleTimes(typicalPrice(d), d.volume)),
     vol |-> acc.vol + d.volume]

\* Variant: a zero cumulative volume yields the value 0 in place of 0/0.
VWAPPoint_guarded(d, after) ==
    [time |-> d.time,
     value |-> IF after.vol = 0 THEN DZero
               ELSE DoubleOver(after.tpv, after.vol)]

\* const vwap = cumulativeTPV / cumulativeVolume;
\* return { time: d.time, value: vwap }
\* after holds the accumulators once bar d has been added to them.
VWAPPoint(d, after) ==
    [time |-> d.time, value |-> DoubleOver(after.tpv, after.vol)]

\* The callback of the map for one bar d: the point it returns and the
\* accumulators it leaves.
VWAPBar(d, after) == [points |-> <<VWAPPoint(d, after)>>, acc |-> after]

\* The map over rest, left to right, starting from the accumulators acc: the
\* points it returns and the accumulators it ends with.  The sequence is
\* halved to keep the evaluation depth logarithmic.
RECURSIVE VWAPMap(_, _)
VWAPMap(rest, acc) ==
    IF Len(rest) = 0 THEN [points |-> <<>>, acc |-> acc]
    ELSE IF Len(rest) = 1
    THEN VWAPBar(rest[1], VWAPStep(rest[1], acc))
    ELSE LET h     == Len(rest) \div 2
             left  == VWAPMap(SubSeq(rest, 1, h), acc)
             right == VWAPMap(SubSeq(rest, h + 1, Len(rest)), left.acc)
         IN  [points |-> left.points \o right.points, acc |-> right.acc]

\* Variant: one bar fewer than anchorDays is kept.
anchorIndex_offByOne(data, anchorDays) ==
    Max2(0, Len(data) - anchorDays + 1)

\* const anchorIndex = Math.max(0, data.length - anchorDays)
anchorIndex(data, anchorDays) == Max2(0, Len(data) - anchorDays)

\* Variant: the accumulation runs over the whole history and the result is
\* sliced afterwards: data.map(...).slice(anchorIndex).
calculateAnchoredVWAP_wholeHistory(data, anchorDays) ==
    SliceFrom(VWAPMap(data, NoVolumeYet).points, anchorIndex(data, anchorDays))

\* cumulativeTPV and cumulativeVolume are locals that start at 0 on every
\* call; the map runs over data.slice(anchorIndex).
calculateAnchoredVWAP(data, anchorDays) ==
    VWAPMap(SliceFrom(data, anchorIndex(data, anchorDays)), NoVolumeYet).points

---------------------------------------------------------------------------
(* StockChart *)

EmptySeries ==
    [candlestick |-> <<>>, volume |-> <<>>, vwap1 |-> <<>>, vwap2 |-> <<>>,
     range |-> [from |-> 0, to |-> -1]]

\* Variant: a bar that closes where it opened counts as a down bar.
volumeColor_strict(d) == IF d.close > d.open THEN "up" ELSE "down"

\* color: d.close >= d.open ? 'rgba(211, 211, 211, 0.2)'
\*                           : 'rgba(169, 169, 169, 0.1)'
\* ("up" and "down" stand for the two colour strings)
volumeColor(d) == IF d.close >= d.open THEN "up" ELSE "down"

\* The histogram point made of bar d.
volumePoint(d) ==
    [time |-> d.time, value |-> d.volume, color |-> volumeColor(d)]

\* Variant: bars without volume get no histogram point.
volumeData_tradedOnly(data) ==
    LET traded == SelectSeq(data, LAMBDA d : d.volume > 0)
    IN  [i \in 1..Len(traded) |-> volumePoint(traded[i])]

\* const volumeData = stockData.map(d => ({time, value, color}))
volumeData(data) == [i \in 1..Len(data) |-> volumePoint(data[i])]

\* Variant: the start of the range is not clamped at 0.
visibleRange_unclamped(n) == [from |-> n - 365, to |-> n - 1]

\* setVisibleLogicalRange({from: Math.max(0, n - 365), to: n - 1}), n being
\* heikinAshiData.length
visibleRange(n) == [from |-> Max2(0, n - 365), to |-> n - 1]

\* updateChart once the four series refs are set (they are from mount on):
\* what the renderer holds afterwards, given what it held before.
updateChart(data, before) ==
    IF Len(data) > 0
    THEN LET heikinAshiData == calculateHeikinAshi(data)
         IN  [candlestick |-> heikinAshiData,
              volume |-> volumeData(data),
              vwap1 |-> calculateAnchoredVWAP(data, 365),
              vwap2 |-> calculateAnchoredVWAP(data, 100),
              range |-> visibleRange(Len(heikinAshiData))]
    ELSE before

\* Which array object a value is: the n-th array stored in the root cache
\* under symbol s (the root service returns the array it caches, from the
\* network as from the cache), or the [] useState([]) starts with.
ArrayOf(s, n) == [symbol |-> s, no |-> n]
InitialArray == ArrayOf("none", 0)

\* The symbol of the call stockData came from.
shownSymbol == stockDataRef.symbol

\* No state update is queued.
NothingScheduled == [set |-> FALSE, value |-> <<>>, ref |-> InitialArray]

\* What `await stockDataService.fetchStockData(symbol)` of StockChart gets
\* once the service call ret has settled: for a resolved call the array
\* that is in the cache when it returns.
Awaited(ret) ==
    [inst |-> ret.inst, symbol |-> ret.symbol, status |-> ret.status,
     value |-> ret.value,
     ref |-> IF ret.status = "resolved"
             THEN ArrayOf(ret.symbol, stored'[ret.svc][cacheKey(ret.symbol)])
             ELSE InitialArray]

\* The [stockData] effect: updateChart() when stockData is not empty.
stockDataEffect(data, before) ==
    IF Len(data) > 0 THEN updateChart(data, before) ELSE before

\* What the chart holds once an effect that is still due has run.  React
\* runs the effects of the last render before it renders again.
SeriesFlushed ==
    IF effectDue THEN stockDataEffect(stockData, series) ELSE series

\* Variant: the callback writes the Heikin-Ashi values into d.
HeikinAshiInput_inPlace(data) == calculateHeikinAshi(data)

\* The array data after calculateHeikinAshi(data): data.map(callback) makes a
\* new array, and the callback reads d and arr[i-1] and returns a new
\* object; nothing is assigned to an element of data or to a field of one.
HeikinAshiInput(data) == [i \in 1..Len(data) |-> data[i]]

\* The array data after calculateAnchoredVWAP(data, anchorDays):
\* data.slice(anchorIndex) is a new array of the same bar objects, and the
\* callback of its map reads d and assigns to the two accumulators only.
AnchoredVWAPInput(data, anchorDays) == [i \in 1..Len(data) |-> data[i]]

\* The array stockData after updateChart(): the two transforms and
\* stockData.map(d => ({time, value, color})) for the volume series.
updateChartInput(data) ==
    AnchoredVWAPInput(AnchoredVWAPInput(HeikinAshiInput(data), 365), 100)

\* The array stockData after the [stockData] effect.
stockDataEffectInput(data) ==
    IF Len(data) > 0 THEN updateChartInput(data) ELSE data

\* JSON.stringify(historicalData): the text of the array, bar by bar, each
\* bar with its keys in the order formattedData made them in.
stringify(data) ==
    [i \in 1..Len(data) |->
        <<"time", data[i].time, "open", data[i].open, "high", data[i].high,
          "low", data[i].low, "close", data[i].close,
          "volume", data[i].volume>>]

\* The array historicalData after JSON.stringify(historicalData), which
\* reads it (the bars have no toJSON).
stringifyInput(data) == [i \in 1..Len(data) |-> data[i]]

\* `${userPrompt} Historical Data: ${JSON.stringify(historicalData)}` of
\* App.getAIOpinion.
AppPrompt(userPrompt, historicalData) ==
    <<userPrompt, " Historical Data: ", stringify(historicalData)>>

\* `${userPrompt}\n\nHistorical Data: ${JSON.stringify(historicalData)}` of
\* getAIOpinion.
ServicePrompt(userPrompt, historicalData) ==
    <<userPrompt, "\n\nHistorical Data: ", stringify(historicalData)>>

\* The prompt built last, and by which function; none so far.
NoPrompt == [by |-> "none", text |-> <<>>]
Prompt(by, text) == [by |-> by, text |-> text]

\* The root cache once the array object ref holds content: the entry of
\* ref's symbol is that object when ref is the array stored there last.
CacheHolding(ref, content) ==
    IF /\ ref.no > 0
       /\ has("root", ref.symbol)
       /\ ref.no = stored["root"][cacheKey(ref.symbol)]
    THEN [cachedData EXCEPT !["root"][cacheKey(ref.symbol)] = content]
    ELSE cachedData

\* The service call ret has settled.  If StockChart.fetchStockData or
\* App.getAIOpinion made it, the caller's continuation is queued behind
\* those queued before; the component is not touched in this turn.
ChartAwaits(ret) ==
    /\ chartAwaits' = IF ret.chart THEN Append(chartAwaits, Awaited(ret))
                      ELSE chartAwaits
    /\ appAwaits' = IF ret.asks THEN Append(appAwaits, Awaited(ret))
                    ELSE appAwaits
    /\ UNCHANGED componentVars

---------------------------------------------------------------------------
(* fetchStockData, step by step *)

\* From the call to the first await (or to the return on a cache hit).  inst
\* is the StockChart instance that calls, 0 for any other caller; asks says
\* that the caller is App.getAIOpinion.
Begin(svc, s, inst, asks) ==
    LET call == [svc |-> svc, symbol |-> s, pc |-> "start",
                 chart |-> inst > 0, inst |-> inst, asks |-> asks,
                 sent |-> 0]
    IN  /\ nCalls < MaxCalls
        /\ nCalls' = nCalls + 1
        /\ IF has(svc, s)
           THEN /\ returned' = Resolved(call, get(svc, s), TRUE, NoAnswer)
                /\ succeeded' = succeeded \cup {<<svc, s>>}
                /\ UNCHANGED <<cachedData, requests, pending, failed>>
           ELSE /\ requests' = [requests EXCEPT ![svc][s] = @ + 1]
                /\ pending' = Append(pending,
                                [call EXCEPT !.pc = "fetch", !.sent = @ + 1])
                /\ UNCHANGED <<cachedData, returned, succeeded, failed>>
        /\ UNCHANGED stored

\* A caller other than StockChart (App.fetchStockData, useHistoricalData)
\* calls fetchStockData(s) on service svc.
CallFetchStockData(svc, s) ==
    /\ Begin(svc, s, 0, FALSE)
    /\ UNCHANGED chartVars
    /\ UNCHANGED haVars
    /\ UNCHANGED vwapVars
    /\ UNCHANGED aiVars

\* `await fetch(url)` settles for the i-th suspended call as a says: the
\* promise rejects (network failure) or resolves with a response.
FetchSettles(i, a) ==
    /\ i \in 1..Len(pending)
    /\ pending[i].pc = "fetch"
    /\ stored' = stored
    /\ LET call  == pending[i]
           netOk == a.netOk
           ok    == a.ok
           cause == IF ~netOk THEN "network" ELSE ResponseFailure(ok)
       IN  IF cause = "none"
           THEN /\ pending' = [pending EXCEPT ![i].pc = "json"]
                /\ UNCHANGED <<returned, failed, chartVars>>
           ELSE /\ pending' = Remove(pending, i)
                /\ returned' = Rejected(call, cause, FetchAnswer(netOk, ok))
                /\ failed' = failed \cup {<<call.svc, call.symbol>>}
                /\ ChartAwaits(returned')
    /\ UNCHANGED <<cachedData, requests, nCalls, succeeded>>
    /\ UNCHANGED haVars
    /\ UNCHANGED vwapVars
    /\ UNCHANGED aiVars

\* `await response.json()` settles for the i-th suspended call, which is
\* for symbol s, as a says: the promise rejects (the body is not JSON) or
\* resolves with a body.  The service's continuation runs to its return or
\* throw.
JsonSettles(i, s, a) ==
    /\ i \in 1..Len(pending)
    /\ pending[i].pc = "json"
    /\ pending[i].symbol = s
    /\ LET call    == pending[i]
           parseOk == a.parseOk
           body    == a.body
           cause == IF ~parseOk THEN "parse" ELSE BodyFailure(body)
           data  == formattedData(body.results.items)
       IN  IF cause = "none"
           THEN /\ cachedData' = [cachedData EXCEPT
                                    ![call.svc] = set(call.svc, call.symbol, data)]
                /\ returned' = Resolved(call, NetworkReturn(call.svc, data),
                                        FALSE, JsonAnswer(parseOk, body))
                /\ stored' = [stored EXCEPT
                                ![call.svc][cacheKey(call.symbol)] = @ + 1]
                /\ succeeded' = succeeded \cup {<<call.svc, call.symbol>>}
                /\ UNCHANGED failed
           ELSE /\ returned' = Rejected(call, cause, JsonAnswer(parseOk, body))
                /\ failed' = failed \cup {<<call.svc, call.symbol>>}
                /\ UNCHANGED <<cachedData, succeeded, stored>>
    /\ ChartAwaits(returned')
    /\ pending' = Remove(pending, i)
    /\ UNCHANGED <<requests, nCalls>>
    /\ UNCHANGED haVars
    /\ UNCHANGED vwapVars
    /\ UNCHANGED aiVars

---------------------------------------------------------------------------
(* StockChart, turn by turn *)

\* The [symbol] effect of instance inst: fetchStockData() runs up to its
\* await.  On a cache hit the service's promise is resolved already, and
\* the continuation is queued like any other.
SymbolEffect(s, inst) ==
    /\ Begin("root", s, inst, FALSE)
    /\ chartAwaits' = IF has("root", s)
                      THEN Append(chartAwaits, Awaited(returned'))
                      ELSE chartAwaits
    /\ UNCHANGED appAwaits

\* App renders a StockChart with symbol s (submittedSymbol has become
\* non-empty): a new instance with stockData = [] whose [symbol] effect calls
\* fetchStockData(), whose mount effect makes a chart with four empty series
\* (setupChart), and whose [stockData] effect finds stockData empty.
ChartMount(s) ==
    /\ ~mounted
    /\ mounted' = TRUE
    /\ symbol' = s
    /\ chartInstance' = chartInstance + 1
    /\ SymbolEffect(s, chartInstance + 1)
    /\ scheduled' = NothingScheduled
    /\ stockData' = <<>>
    /\ stockDataRef' = InitialArray
    /\ effectDue' = FALSE
    /\ series' = EmptySeries
    /\ UNCHANGED haVars
    /\ UNCHANGED vwapVars
    /\ UNCHANGED aiVars

\* The same under StrictMode in a development build (main.tsx renders App
\* inside StrictMode): the effects of a new instance are run, cleaned up and
\* run again in the turn it mounts in.  The [symbol] effect calls
\* fetchStockData() twice, before any await of the first call has settled;
\* the chart setupChart made first is removed and a second one is made.
ChartMountStrict(s) ==
    LET inst == chartInstance + 1
        call == [svc |-> "root", symbol |-> s, pc |-> "start",
                 chart |-> TRUE, inst |-> inst, asks |-> FALSE, sent |-> 0]
        sent == [call EXCEPT !.pc = "fetch", !.sent = @ + 1]
    IN  /\ ~mounted
        /\ nCalls + 2 <= MaxCalls
        /\ nCalls' = nCalls + 2
        /\ stored' = stored
        /\ IF has("root", s)
           THEN /\ returned' = Resolved(call, get("root", s), TRUE, NoAnswer)
                /\ succeeded' = succeeded \cup {<<"root", s>>}
                /\ chartAwaits' = chartAwaits
                                    \o <<Awaited(returned'), Awaited(returned')>>
                /\ UNCHANGED <<cachedData, requests, pending, failed>>
           ELSE /\ requests' = [requests EXCEPT !["root"][s] = @ + 2]
                /\ pending' = pending \o <<sent, sent>>
                /\ UNCHANGED <<cachedData, returned, succeeded, failed,
                               chartAwaits>>
        /\ UNCHANGED appAwaits
        /\ mounted' = TRUE
        /\ symbol' = s
        /\ chartInstance' = inst
        /\ scheduled' = NothingScheduled
        /\ stockData' = <<>>
        /\ stockDataRef' = InitialArray
        /\ effectDue' = FALSE
        /\ series' = EmptySeries
        /\ UNCHANGED haVars
        /\ UNCHANGED vwapVars
        /\ UNCHANGED aiVars

\* The symbol prop changes to s (App's submit and key handlers set
\* submittedSymbol): React renders in the turn of the event, after any
\* effect still due, and the [symbol] effect calls fetchStockData() for the
\* new symbol.  Nothing is done about a call still suspended, and an update
\* setStockData has queued waits for its own render.
ChartSetSymbol(s) ==
    /\ mounted
    /\ s # symbol
    /\ symbol' = s
    /\ SymbolEffect(s, chartInstance)
    /\ series' = SeriesFlushed
    /\ effectDue' = FALSE
    /\ UNCHANGED <<mounted, chartInstance, scheduled, stockData, stockDataRef>>
    /\ UNCHANGED haVars
    /\ UNCHANGED vwapVars
    /\ UNCHANGED aiVars

\* Variant: a rejected call queues the empty sequence.
ChartContinues_clearsOnError ==
    /\ chartAwaits # <<>>
    /\ LET got == Head(chartAwaits)
       IN  /\ chartAwaits' = Tail(chartAwaits)
           /\ UNCHANGED appAwaits
           /\ scheduled' =
                 IF mounted /\ got.inst = chartInstance
                 THEN [set |-> TRUE, value |-> got.value, ref |-> got.ref]
                 ELSE scheduled
    /\ UNCHANGED <<mounted, symbol, chartInstance, stockData, stockDataRef,
                   effectDue, series>>
    /\ UNCHANGED <<storeVars, haVars, vwapVars, aiVars>>

\* StockChart.fetchStockData resumes after its await, on the promise that
\* settled first: a resolved call does setStockData(data), which queues the
\* update for the next render; a rejected call is logged and nothing else.
\* setStockData does nothing for an instance that has been unmounted, and
\* nothing when no update is queued and data is the array stockData is.
ChartContinues ==
    /\ chartAwaits # <<>>
    /\ LET got == Head(chartAwaits)
       IN  /\ chartAwaits' = Tail(chartAwaits)
           /\ UNCHANGED appAwaits
           /\ scheduled' =
                 IF /\ mounted
                    /\ got.inst = chartInstance
                    /\ got.status = "resolved"
                    /\ (scheduled.set \/ got.ref # stockDataRef)
                 THEN [set |-> TRUE, value |-> got.value, ref |-> got.ref]
                 ELSE scheduled
    /\ UNCHANGED <<mounted, symbol, chartInstance, stockData, stockDataRef,
                   effectDue, series>>
    /\ UNCHANGED <<storeVars, haVars, vwapVars, aiVars>>

\* React renders the instance with the queued update, the last value
\* setStockData was given since the previous render, after any effect still
\* due.  When that value is another array than stockData was, the
\* [stockData] effect is due; React runs it in a later turn.
ChartRenders ==
    /\ mounted
    /\ scheduled.set
    /\ scheduled' = NothingScheduled
    /\ series' = SeriesFlushed
    /\ IF scheduled.ref = stockDataRef
       THEN /\ effectDue' = FALSE
            /\ UNCHANGED <<stockData, stockDataRef>>
       ELSE /\ effectDue' = TRUE
            /\ stockData' = scheduled.value
            /\ stockDataRef' = scheduled.ref
    /\ UNCHANGED <<mounted, symbol, chartInstance, chartAwaits, appAwaits>>
    /\ UNCHANGED <<storeVars, haVars, vwapVars, aiVars>>

\* The [stockData] effect of the last render runs: updateChart() when
\* stockData is not empty.  stockData is the array the calls were given, and
\* the cache entry too when that array is the one the cache holds.
StockDataEffect ==
    /\ mounted
    /\ effectDue
    /\ effectDue' = FALSE
    /\ series' = stockDataEffect(stockData, series)
    /\ stockData' = stockDataEffectInput(stockData)
    /\ cachedData' = CacheHolding(stockDataRef, stockData')
    /\ UNCHANGED <<mounted, symbol, chartInstance, chartAwaits, appAwaits,
                   scheduled, stockDataRef>>
    /\ UNCHANGED <<requests, pending, nCalls, returned, succeeded, failed,
                   stored>>
    /\ UNCHANGED <<haVars, vwapVars, aiVars>>

\* handleFetchAIOpinion of App calls getAIOpinion(model, systemPrompt,
\* userPrompt, submittedSymbol), submittedSymbol being the symbol StockChart
\* is given: getAIOpinion calls App.fetchStockData, which calls the root
\* service, and suspends.
AppGetAIOpinion(s) ==
    /\ mounted
    /\ s = symbol
    /\ Begin("root", s, 0, TRUE)
    /\ appAwaits' = IF has("root", s)
                    THEN Append(appAwaits, Awaited(returned'))
                    ELSE appAwaits
    /\ UNCHANGED <<chartAwaits, componentVars>>
    /\ UNCHANGED <<haVars, vwapVars, aiVars>>

\* App.getAIOpinion resumes after `await fetchStockData(symbol)`, on the
\* promise that settled first.  On a resolved call it builds fullUserPrompt
\* from the array it got, which is the array the cache holds, makes the
\* request body and suspends in fetch(model.apiEndpoint, ...) or throws for
\* a model it does not know.  On a rejected call (App.fetchStockData logs
\* and rethrows) the catch block returns a failure text.
AppContinues ==
    /\ appAwaits # <<>>
    /\ LET got == Head(appAwaits)
           after == stringifyInput(got.value)
       IN  /\ appAwaits' = Tail(appAwaits)
           /\ IF got.status = "resolved"
              THEN /\ fullUserPrompt'
                        = Prompt("App.getAIOpinion",
                                 AppPrompt("userPrompt", got.value))
                   /\ cachedData' = CacheHolding(got.ref, after)
                   /\ stockData' = IF got.ref = stockDataRef THEN after
                                   ELSE stockData
              ELSE UNCHANGED <<fullUserPrompt, cachedData, stockData>>
    /\ UNCHANGED <<mounted, symbol, chartInstance, chartAwaits, scheduled,
                   stockDataRef, effectDue, series>>
    /\ UNCHANGED <<requests, pending, nCalls, returned, succeeded, failed,
                   stored>>
    /\ UNCHANGED <<haVars, vwapVars>>
    /\ UNCHANGED <<opinions, isLoading, error, apiEndpoint, aiPending,
                   aiNCalls, aiRequested, aiReturned, hookAwaits,
                   hookReturned>>

\* App stops rendering StockChart (submittedSymbol has become empty): the
\* cleanup of the mount effect removes the chart, and the instance's state is
\* gone.  Calls it has made stay suspended.
ChartUnmount ==
    /\ mounted
    /\ mounted' = FALSE
    /\ symbol' = "none"
    /\ scheduled' = NothingScheduled
    /\ stockData' = <<>>
    /\ stockDataRef' = InitialArray
    /\ effectDue' = FALSE
    /\ series' = EmptySeries
    /\ UNCHANGED <<chartInstance, chartAwaits, appAwaits>>
    /\ UNCHANGED <<storeVars, haVars, vwapVars, aiVars>>

---------------------------------------------------------------------------
(* getAIOpinion (aiService.ts) and the useAIOpinions hook *)

\* The names of the AI_MODELS entries, in order.
AI_MODELS == <<"OpenAI", "Groq", "Claude", "Gemini">>

\* The names the first switch of getAIOpinion has a case for.
SupportedModels == {"OpenAI", "Groq", "Claude", "Gemini", "Mistral"}

\* Names a caller may pass: the supported ones and one that is in neither
\* list.
ModelNames == SupportedModels \cup {"Llama"}

\* AI_MODELS.find(m => m.name === modelName) finds an entry.
find(modelName) == \E k \in DOMAIN AI_MODELS : AI_MODELS[k] = modelName

\* A string is the sequence of its pieces; '' is <<>>.
EmptyString == <<>>
Texts == {EmptyString, <<"Bullish">>, <<"Bearish">>}

\* `No opinion provided by ${model.name}.`
NoOpinionProvided(name) == <<"No opinion provided by ", name, ".">>

\* An endpoint URL: the configured one of model name, followed by n copies
\* of `?key=${model.apiKey}`.
ConfiguredEndpoint(name) == [of |-> name, keys |-> 0]

\* Parsed response bodies, by what is there along the path the code reads:
\*   "null"        the JSON value null
\*   "other"       an object with none of the three keys
\*   "choices"     {choices: ...}, read as choices[0]?.message?.content
\*   "completion"  {completion: text}
\*   "candidates"  {candidates: ...}, read as
\*                 candidates[0]?.content?.parts[0]?.text
\* ends is the last step of the path that is there: the array (empty), its
\* item 0 (an object without the next key), and so on to the text.
ChoicesEnds == {"array", "item", "message", "text"}
CandidatesEnds == {"array", "item", "content", "parts", "part", "text"}

AIBody(format, ends, text) == [format |-> format, ends |-> ends, text |-> text]

AIBodies ==
    {AIBody("null", "none", EmptyString), AIBody("other", "none", EmptyString)}
    \cup {AIBody("choices", e, EmptyString) : e \in ChoicesEnds \ {"text"}}
    \cup {AIBody("candidates", e, EmptyString) : e \in CandidatesEnds \ {"text"}}
    \cup {AIBody(f, "text", t) :
            f \in {"choices", "completion", "candidates"}, t \in Texts}

\* No parsed body (the call did not get that far).
NoAIBody == AIBody("none", "none", EmptyString)

\* How `await response.json()` may settle in getAIOpinion.
AIJsonAnswers ==
    {[parseOk |-> FALSE, body |-> NoAIBody]}
    \cup {[parseOk |-> TRUE, body |-> b] : b \in AIBodies}

\* The path the second switch reads for model name.
PathOf(name) ==
    IF name = "Claude" THEN "completion"
    ELSE IF name = "Gemini" THEN "candidates"
    ELSE "choices"

\* The body has a text at the end of the path read for model name.
HasText(name, body) == body.format = PathOf(name) /\ body.ends = "text"

\* Reading the path throws a TypeError: any property of null; data.choices[0]
\* or data.candidates[0] with the array missing; and parts[0] with parts
\* missing, the one step of the Gemini path without `?.`.
\* (data as any).completion of an object never throws.
ReadThrows(name, body) ==
    \/ body.format = "null"
    \/ name # "Claude" /\ body.format # PathOf(name)
    \/ name = "Gemini" /\ body.format = "candidates" /\ body.ends = "content"

\* opinion = <path> || '';  return opinion || `No opinion provided by ...`
opinionOf(name, body) ==
    LET extracted == IF HasText(name, body) THEN body.text ELSE EmptyString
    IN  IF extracted = EmptyString THEN NoOpinionProvided(name) ELSE extracted

\* Variant: the endpoint with the key is a local of the call.
endpointAfterSwitch_local(name) == apiEndpoint[name]

\* model.apiEndpoint after the first switch: the Gemini case does
\* model.apiEndpoint += `?key=${model.apiKey}`.
endpointAfterSwitch(name) ==
    IF name = "Gemini"
    THEN [apiEndpoint[name] EXCEPT !.keys = @ + 1]
    ELSE apiEndpoint[name]

\* What a parsed body has at the end of the path read for model name: a
\* text that is not empty, the empty string, or nothing.
TextIn(name, body) ==
    IF ~HasText(name, body) THEN "missing"
    ELSE IF body.text = EmptyString THEN "empty"
    ELSE "text"

\* Records of finished getAIOpinion calls: how the call settled (status,
\* message or opinion), what the body it parsed had for a text ("none" when
\* it parsed no body) and the number of requests it sent.
NoAIReturn ==
    [caller |-> "none", model |-> "none", status |-> "none",
     message |-> "none", opinion |-> EmptyString, text |-> "none",
     sent |-> 0]

AIResolved(call, opinion, text) ==
    [caller |-> call.caller, model |-> call.model, status |-> "resolved",
     message |-> "none", opinion |-> opinion, text |-> text,
     sent |-> call.sent]

AIRejected(call, message, text) ==
    [caller |-> call.caller, model |-> call.model, status |-> "rejected",
     message |-> message, opinion |-> EmptyString, text |-> text,
     sent |-> call.sent]

\* How the promise of fetchOpinion settles: the catch block rethrows
\* nothing, so it is fulfilled whether getAIOpinion resolved or rejected.
fetchOpinionSettles(status) == "fulfilled"

\* Records of finished fetchOpinion calls: the model asked for, how the try
\* block ended (status, message) and how the promise settled.
NoHookReturn ==
    [model |-> "none", status |-> "none", message |-> "none",
     promise |-> "none"]

HookReturn(model, status, message) ==
    [model |-> model, status |-> status, message |-> message,
     promise |-> fetchOpinionSettles(status)]

\* Variant: the new opinion is appended to the list as it is.
setOpinions_appendOnly(prevOpinions, modelName, opinion) ==
    Append(prevOpinions, [modelName |-> modelName, opinion |-> opinion])

\* setOpinions(prevOpinions => [...prevOpinions.filter(o => o.modelName !==
\* modelName), {modelName, opinion}])
setOpinions(prevOpinions, modelName, opinion) ==
    Append(SelectSeq(prevOpinions, LAMBDA o : o.modelName # modelName),
           [modelName |-> modelName, opinion |-> opinion])

\* Variant: a failed call leaves error as it is.
HookCatch_silent(message) == error

\* catch (err) { setError(err.message) }: the new error state.
HookCatch(message) == message

\* What `await getAIOpinion(...)` of fetchOpinion gets once the call ret has
\* settled.
AIAwaited(ret) ==
    [model |-> ret.model, status |-> ret.status, message |-> ret.message,
     opinion |-> ret.opinion]

\* The getAIOpinion call ret has settled.  If fetchOpinion made it, its
\* continuation is queued behind those queued before; the hook's state is
\* not touched in this turn.
HookAwaits(ret) ==
    /\ hookAwaits' = IF ret.caller = "hook"
                     THEN Append(hookAwaits, AIAwaited(ret))
                     ELSE hookAwaits
    /\ UNCHANGED <<hookVars, hookReturned>>

\* The historicalData useAIOpinions is given: what useHistoricalData got
\* from fetchStockData(MAJOR_INDICES[0].symbol), here a result of one bar.
HookHistoricalData == formattedData(RawResults("SMH", 1))

\* getAIOpinion from the call to its first await (or to its throw): the
\* prompt, the first switch, then fetch(model.apiEndpoint, ...).
GetAIOpinionBegin(caller, name, historicalData) ==
    LET call == [caller |-> caller, model |-> name, pc |-> "start", sent |-> 0]
    IN  /\ fullUserPrompt'
             = Prompt("getAIOpinion", ServicePrompt("userPrompt", historicalData))
        /\ IF name \in SupportedModels
           THEN /\ apiEndpoint' = [apiEndpoint EXCEPT
                                     ![name] = endpointAfterSwitch(name)]
                /\ aiRequested' = [aiRequested EXCEPT
                                     ![name] = Append(@, apiEndpoint'[name])]
                /\ aiPending' = Append(aiPending,
                                   [call EXCEPT !.pc = "fetch", !.sent = @ + 1])
                /\ UNCHANGED aiReturned
           ELSE /\ aiReturned' = AIRejected(call, "Unsupported AI model", "none")
                /\ UNCHANGED <<apiEndpoint, aiRequested, aiPending>>

\* fetchOpinion(modelName, ...) of the hook, up to its await of getAIOpinion
\* or, when the model is not found, through catch and finally to its end.
FetchOpinion(modelName) ==
    /\ aiNCalls < MaxOpinionCalls
    /\ aiNCalls' = aiNCalls + 1
    /\ IF find(modelName)
       THEN /\ GetAIOpinionBegin("hook", modelName, HookHistoricalData)
            /\ isLoading' = TRUE
            /\ error' = "null"
            /\ hookAwaits' = IF modelName \in SupportedModels THEN hookAwaits
                             ELSE Append(hookAwaits, AIAwaited(aiReturned'))
            /\ UNCHANGED <<opinions, hookReturned>>
       ELSE /\ error' = HookCatch("AI model not found")
            /\ isLoading' = FALSE
            /\ hookReturned' = HookReturn(modelName, "rejected",
                                          "AI model not found")
            /\ UNCHANGED <<opinions, apiEndpoint, aiRequested, aiPending,
                           aiReturned, hookAwaits, fullUserPrompt>>
    /\ UNCHANGED <<storeVars, chartVars, haVars, vwapVars>>

\* Another caller calls getAIOpinion with a model config of name name.
CallGetAIOpinion(name) ==
    /\ aiNCalls < MaxOpinionCalls
    /\ aiNCalls' = aiNCalls + 1
    /\ GetAIOpinionBegin("direct", name, HookHistoricalData)
    /\ UNCHANGED <<hookVars, hookAwaits, hookReturned>>
    /\ UNCHANGED <<storeVars, chartVars, haVars, vwapVars>>

\* getAIOpinion is called with the array the root cache holds for s as its
\* historicalData.
CallGetAIOpinionOnCached(name, s) ==
    /\ has("root", s)
    /\ aiNCalls < MaxOpinionCalls
    /\ aiNCalls' = aiNCalls + 1
    /\ LET ref == ArrayOf(s, stored["root"][cacheKey(s)])
           after == stringifyInput(get("root", s))
       IN  /\ GetAIOpinionBegin("direct", name, get("root", s))
           /\ cachedData' = CacheHolding(ref, after)
           /\ stockData' = IF ref = stockDataRef THEN after ELSE stockData
    /\ UNCHANGED <<hookVars, hookAwaits, hookReturned>>
    /\ UNCHANGED <<requests, pending, nCalls, returned, succeeded, failed,
                   stored>>
    /\ UNCHANGED <<mounted, symbol, chartInstance, chartAwaits, appAwaits,
                   scheduled, stockDataRef, effectDue, series>>
    /\ UNCHANGED <<haVars, vwapVars>>

\* `await fetch(model.apiEndpoint, ...)` settles for the i-th suspended call:
\* getAIOpinion goes on to its next await, or logs and rethrows.
AIFetchSettles(i, a) ==
    /\ i \in 1..Len(aiPending)
    /\ aiPending[i].pc = "fetch"
    /\ LET call    == aiPending[i]
           message == IF ~a.netOk THEN "Failed to fetch"
                      ELSE IF ~a.ok THEN "HTTP error"
                      ELSE "none"
       IN  IF message = "none"
           THEN /\ aiPending' = [aiPending EXCEPT ![i].pc = "json"]
                /\ UNCHANGED <<aiReturned, hookVars, hookAwaits, hookReturned>>
           ELSE /\ aiPending' = Remove(aiPending, i)
                /\ aiReturned' = AIRejected(call, message, "none")
                /\ HookAwaits(aiReturned')
    /\ UNCHANGED <<apiEndpoint, aiNCalls, aiRequested, fullUserPrompt>>
    /\ UNCHANGED <<storeVars, chartVars, haVars, vwapVars>>

\* `await response.json()` settles for the i-th suspended call: getAIOpinion
\* reads the opinion and returns, or logs and rethrows.
AIJsonSettles(i, a) ==
    /\ i \in 1..Len(aiPending)
    /\ aiPending[i].pc = "json"
    /\ LET call    == aiPending[i]
           message == IF ~a.parseOk THEN "SyntaxError"
                      ELSE IF ReadThrows(call.model, a.body) THEN "TypeError"
                      ELSE "none"
           text    == IF a.parseOk THEN TextIn(call.model, a.body) ELSE "none"
       IN  /\ aiReturned' = IF message = "none"
                            THEN AIResolved(call, opinionOf(call.model, a.body),
                                            text)
                            ELSE AIRejected(call, message, text)
           /\ HookAwaits(aiReturned')
    /\ aiPending' = Remove(aiPending, i)
    /\ UNCHANGED <<apiEndpoint, aiNCalls, aiRequested, fullUserPrompt>>
    /\ UNCHANGED <<storeVars, chartVars, haVars, vwapVars>>

\* fetchOpinion resumes after `await getAIOpinion(...)`, on the promise that
\* settled first: the try block's setOpinions or the catch block's setError,
\* then the finally block's setIsLoading(false).
HookContinues ==
    /\ hookAwaits # <<>>
    /\ LET ret == Head(hookAwaits)
       IN  /\ hookAwaits' = Tail(hookAwaits)
           /\ opinions' = IF ret.status = "resolved"
                          THEN setOpinions(opinions, ret.model, ret.opinion)
                          ELSE opinions
           /\ error' = IF ret.status = "resolved" THEN error
                       ELSE HookCatch(ret.message)
           /\ isLoading' = FALSE
           /\ hookReturned' = HookReturn(ret.model, ret.status, ret.message)
    /\ UNCHANGED <<apiEndpoint, aiPending, aiNCalls, aiRequested, aiReturned,
                   fullUserPrompt>>
    /\ UNCHANGED <<storeVars, chartVars, haVars, vwapVars>>

---------------------------------------------------------------------------
(* Specification of the store: any caller, StockChart among them, calls    *)
(* fetchStockData of either service for any symbol.                        *)

StoreInit ==
    /\ cachedData = [svc \in Services |-> <<>>]
    /\ requests = [svc \in Services |-> [s \in AllSymbols |-> 0]]
    /\ pending = <<>>
    /\ nCalls = 0
    /\ returned = NoReturn
    /\ succeeded = {}
    /\ failed = {}
    /\ stored = [svc \in Services |-> [s \in AllSymbols |-> 0]]

ChartInit ==
    /\ mounted = FALSE
    /\ symbol = "none"
    /\ chartInstance = 0
    /\ chartAwaits = <<>>
    /\ appAwaits = <<>>
    /\ scheduled = NothingScheduled
    /\ stockData = <<>>
    /\ stockDataRef = InitialArray
    /\ effectDue = FALSE
    /\ series = EmptySeries

\* No call of calculateHeikinAshi / calculateAnchoredVWAP is being followed.
NoHeikinAshiCall ==
    /\ haIn = <<>>
    /\ haOut = <<>>
    /\ haDone = FALSE

NoVWAPCall ==
    /\ vwIn = <<>>
    /\ vwDays = 1
    /\ vwOut = <<>>
    /\ vwDone = FALSE

AIInit ==
    /\ opinions = <<>>
    /\ isLoading = FALSE
    /\ error = "null"
    /\ apiEndpoint = [m \in ModelNames |-> ConfiguredEndpoint(m)]
    /\ aiPending = <<>>
    /\ aiNCalls = 0
    /\ aiRequested = [m \in ModelNames |-> <<>>]
    /\ aiReturned = NoAIReturn
    /\ hookAwaits = <<>>
    /\ hookReturned = NoHookReturn
    /\ fullUserPrompt = NoPrompt

Init ==
    /\ StoreInit
    /\ ChartInit
    /\ NoHeikinAshiCall
    /\ NoVWAPCall
    /\ AIInit

NextAI ==
    \/ \E m \in ModelNames : FetchOpinion(m)
    \/ \E m \in ModelNames : CallGetAIOpinion(m)
    \/ \E i \in 1..MaxOpinionCalls, a \in FetchAnswers : AIFetchSettles(i, a)
    \/ \E i \in 1..MaxOpinionCalls, a \in AIJsonAnswers : AIJsonSettles(i, a)
    \/ HookContinues

SpecAI == Init /\ [][NextAI]_vars

Next ==
    \/ \E svc \in Services, s \in Symbols : CallFetchStockData(svc, s)
    \/ \E i \in 1..MaxCalls, a \in FetchAnswers : FetchSettles(i, a)
    \/ \E i \in 1..MaxCalls, s \in Symbols :
          \E a \in JsonAnswers(s) : JsonSettles(i, s, a)

Spec == Init /\ [][Next]_vars

---------------------------------------------------------------------------
(* Specification of the store called with symbols that differ in case only *)

NextCase ==
    \/ \E svc \in Services, s \in CaseSymbols : CallFetchStockData(svc, s)
    \/ \E i \in 1..MaxCalls, a \in FetchAnswers : FetchSettles(i, a)
    \/ \E i \in 1..MaxCalls, s \in CaseSymbols :
          \E a \in JsonAnswers(s) : JsonSettles(i, s, a)

SpecCase == Init /\ [][NextCase]_vars

---------------------------------------------------------------------------
(* Specification of the store with the scheduling the code can rely on:    *)
(* a response that has arrived has its body delivered, so     *)
(* `await response.json()` settles.  Whether and when `await fetch(url)`   *)
(* settles is up to the provider.                                          *)

BodyDelivered ==
    \E i \in 1..MaxCalls, s \in Symbols :
        \E a \in JsonAnswers(s) : JsonSettles(i, s, a)

SpecLive == Init /\ [][Next]_vars /\ WF_vars(BodyDelivered)

---------------------------------------------------------------------------
(* Specification of StockChart: the component is mounted, given other      *)
(* symbols and unmounted in any order while its calls of the root service  *)
(* settle, its continuations run and React renders and runs effects.  App  *)
(* calls the root service too (App.fetchStockData); the provider's results *)
(* are short.                                                              *)

ChartResultLengths == 0..(MaxExtra + 1)

\* How `await response.json()` may settle for a call of symbol s: rejected,
\* or resolved with a success envelope and a list of one of the lengths.
AnswersOfLengths(s, lengths) ==
    {[parseOk |-> FALSE, body |-> [status |-> "none",
                                  results |-> [isArray |-> FALSE, items |-> <<>>]]]}
    \cup {[parseOk |-> TRUE,
           body |-> [status |-> "OK",
                     results |-> [isArray |-> TRUE, items |-> RawResults(s, L)]]] :
            L \in lengths}

ChartJsonAnswers(s) == AnswersOfLengths(s, ChartResultLengths)

NextChart ==
    \/ \E s \in Symbols : ChartMount(s)
    \/ \E s \in Symbols : ChartMountStrict(s)
    \/ \E s \in Symbols : ChartSetSymbol(s)
    \/ ChartUnmount
    \/ \E s \in Symbols : CallFetchStockData("root", s)
    \/ \E i \in 1..MaxCalls, a \in FetchAnswers : FetchSettles(i, a)
    \/ \E i \in 1..MaxCalls, s \in Symbols :
          \E a \in ChartJsonAnswers(s) : JsonSettles(i, s, a)
    \/ ChartContinues
    \/ ChartRenders
    \/ StockDataEffect

SpecChart == Init /\ [][NextChart]_vars

---------------------------------------------------------------------------
(* Specification of the series StockChart gives its chart: the component   *)
(* is mounted once and is the only caller of the root service here, and    *)
(* the provider's results are short, or about as long as the two VWAP      *)
(* windows and the visible range of updateChart (100 and 365), shorter and *)
(* longer.                                                                 *)

SeriesResultLengths ==
    (0..(MaxExtra + 4))
    \cup {100 + k - MaxExtra - 1 : k \in 0..(2 * MaxExtra + 2)}
    \cup {365 + k - MaxExtra - 1 : k \in 0..(2 * MaxExtra + 2)}

SeriesJsonAnswers(s) == AnswersOfLengths(s, SeriesResultLengths)

NextSeries ==
    \/ \E s \in Symbols : ChartMount(s)
    \/ \E i \in 1..MaxCalls, a \in FetchAnswers : FetchSettles(i, a)
    \/ \E i \in 1..MaxCalls, s \in Symbols :
          \E a \in SeriesJsonAnswers(s) : JsonSettles(i, s, a)
    \/ ChartContinues
    \/ ChartRenders
    \/ StockDataEffect

SpecSeries == Init /\ [][NextSeries]_vars

---------------------------------------------------------------------------
(* Specification of the operations that are given a cached bar sequence:   *)
(* StockChart is mounted and draws what the root service returns           *)
(* (updateChart and the two transforms), App.getAIOpinion fetches the      *)
(* symbol on display and builds its prompt from the array it gets, and     *)
(* getAIOpinion of aiService is given a cached array.                      *)

\* The model configs getAIOpinion is given here: one it knows, one it does
\* not (the prompt is built before the switch).
PromptModels == {"OpenAI", "Llama"}

NextInputs ==
    \/ \E s \in Symbols : ChartMount(s)
    \/ \E i \in 1..MaxCalls, a \in FetchAnswers : FetchSettles(i, a)
    \/ \E i \in 1..MaxCalls, s \in Symbols :
          \E a \in ChartJsonAnswers(s) : JsonSettles(i, s, a)
    \/ ChartContinues
    \/ ChartRenders
    \/ StockDataEffect
    \/ \E s \in Symbols : AppGetAIOpinion(s)
    \/ AppContinues
    \/ \E m \in PromptModels, s \in Symbols : CallGetAIOpinionOnCached(m, s)

SpecInputs == Init /\ [][NextInputs]_vars

---------------------------------------------------------------------------
(* Specification of the Heikin-Ashi transform: any well-formed input *)

Prices == 1..MaxPrice

\* The prices of a bar: low <= min(open, close), max(open, close) <= high.
PricedBars ==
    {b \in [open : Prices, high : Prices, low : Prices, close : Prices] :
        /\ b.low <= Min2(b.open, b.close)
        /\ Max2(b.open, b.close) <= b.high}

\* Volumes run through 0, 100, 200 along a sequence, from any of the three.
VolumePhases == 0..2
Volume(i, k) == 100 * ((i + k) % 3)

\* The bar sequence with prices f and volume phase k, on consecutive days
\* from 2024-01-01 (day 19723).
BarSeq(f, k) ==
    [i \in DOMAIN f |-> [time |-> 19722 + i, open |-> f[i].open,
                         high |-> f[i].high, low |-> f[i].low,
                         close |-> f[i].close, volume |-> Volume(i, k)]]

\* bars = [{2024-01-01,O10,H12,L9,C11,V100},{2024-01-02,O11,H13,L10,C12,V200}]
ScenarioBars ==
    <<[time |-> 19723, open |-> 10, high |-> 12, low |-> 9, close |-> 11,
       volume |-> 100],
      [time |-> 19724, open |-> 11, high |-> 13, low |-> 10, close |-> 12,
       volume |-> 200]>>

InitHA ==
    /\ StoreInit
    /\ ChartInit
    /\ \/ \E n \in 0..MaxLen :
             \E f \in [1..n -> PricedBars], k \in VolumePhases :
                haIn = BarSeq(f, k)
       \/ haIn = ScenarioBars
    /\ haOut = <<>>
    /\ haDone = FALSE
    /\ NoVWAPCall
    /\ AIInit

ApplyHeikinAshi ==
    /\ ~haDone
    /\ haOut' = calculateHeikinAshi(haIn)
    /\ haDone' = TRUE
    /\ UNCHANGED <<haIn, storeVars, chartVars, vwapVars, aiVars>>

NextHA == ApplyHeikinAshi

SpecHA == InitHA /\ [][NextHA]_vars

---------------------------------------------------------------------------
(* Specification of the anchored VWAP: any input, any anchorDays >= 1 *)

\* calculateAnchoredVWAP reads high, low, close, volume and time of a bar,
\* never its open, which is given the value of the close here; of the prices
\* it reads it uses the sum only, so the low is kept at the lowest price.
TypicalBars == {b \in PricedBars : b.open = b.close /\ b.low = 1}

\* Volumes along a sequence: the three phases of 0, 100, 200, or 100
\* throughout, or 0 throughout, or rising by 100 a bar.
VolumePatterns == 0..5
PatternVolume(i, k) ==
    IF k = 3 THEN 100
    ELSE IF k = 4 THEN 0
    ELSE IF k = 5 THEN 100 * i
    ELSE Volume(i, k)

VWAPBarSeq(f, k) ==
    [i \in DOMAIN f |-> [time |-> 19722 + i, open |-> f[i].open,
                         high |-> f[i].high, low |-> f[i].low,
                         close |-> f[i].close, volume |-> PatternVolume(i, k)]]

\* anchorDays below, equal to and above the length of the longest input.
AnchorDays == 1..(MaxLen + 1)

InitVWAP ==
    /\ StoreInit
    /\ ChartInit
    /\ NoHeikinAshiCall
    /\ \/ \E n \in 0..MaxLen :
             \E f \in [1..n -> TypicalBars], k \in VolumePatterns :
                vwIn = VWAPBarSeq(f, k)
       \/ vwIn = ScenarioBars
    /\ vwDays \in AnchorDays
    /\ vwOut = <<>>
    /\ vwDone = FALSE
    /\ AIInit

ApplyAnchoredVWAP ==
    /\ ~vwDone
    /\ vwOut' = calculateAnchoredVWAP(vwIn, vwDays)
    /\ vwDone' = TRUE
    /\ UNCHANGED <<vwIn, vwDays, storeVars, chartVars, haVars, aiVars>>

NextVWAP == ApplyAnchoredVWAP

SpecVWAP == InitVWAP /\ [][NextVWAP]_vars

---------------------------------------------------------------------------
(* Properties of the bar store and the chart (specification Spec) *)

\* The step settles a suspended call (it leaves `pending`).
Settles == Len(pending') < Len(pending)

\* C1: once a fetchStockData(s) call has resolved, a later call for s goes
\* through no await: it issues no request and returns the cached sequence;
\* a call that does go to the network is for a symbol no call has resolved
\* for.  Two sequential calls for one symbol, the second served from the
\* cache, have issued exactly one request.
C1_CachedAfterSuccess ==
    /\ [](returned.viaCache /\ nCalls = 2
            => requests[returned.svc][returned.symbol] = 1)
    /\ [][nCalls' = nCalls + 1 =>
            IF Len(pending') > Len(pending)
            THEN <<pending'[Len(pending')].svc, pending'[Len(pending')].symbol>>
                    \notin succeeded
            ELSE /\ <<returned'.svc, returned'.symbol>> \in succeeded
                 /\ returned'.status = "resolved"
                 /\ returned'.sent = 0
                 /\ requests' = requests
                 /\ cachedData' = cachedData
                 /\ returned'.value = cachedData[returned'.svc][returned'.symbol]
         ]_vars

C1_Witness ==
    /\ nCalls = 2
    /\ returned.viaCache
    /\ Len(returned.value) > 0
    /\ requests[returned.svc][returned.symbol] = 1

\* C2: as long as no request has failed, at most one outbound request is
\* issued per symbol (and service instance), whatever the interleaving.
C2_AtMostOneRequest ==
    failed = {} => \A svc \in Services, s \in Symbols : requests[svc][s] <= 1

\* C3: when a fetchStockData(s) call has failed, the cache has no entry
\* for s.
C3_FailureLeavesNoEntry ==
    returned.status = "rejected" => ~has(returned.svc, returned.symbol)

\* C4: a call answered with a non-success status, an error envelope or a
\* results field that is not a list is rejected, having issued exactly one
\* request; the step that rejects a call issues no request (no retry) and
\* writes nothing to the cache.
C4_FailureCases ==
    /\ [](/\ returned.status # "none"
          /\ \/ returned.answer.netOk /\ ~returned.answer.ok
             \/ returned.answer.status = "ERROR"
             \/ ~returned.answer.isArray
          => /\ returned.status = "rejected"
             /\ returned.sent = 1
             /\ returned.value = <<>>)
    /\ [][Settles /\ returned'.status = "rejected"
            => requests' = requests /\ cachedData' = cachedData]_vars

C4_Witness ==
    /\ returned.status = "rejected"
    /\ returned.answer.status = "ERROR"
    /\ returned.answer.isArray
    /\ requests[returned.svc][returned.symbol] = 1

\* C5: every resolved call of the service that has a history limit returns
\* the most recent min(HISTORY_LIMIT, L) bars of the L bars held in the cache
\* for its symbol.  (The root service applies no limit at all.)
C5_ReturnsHistoryLimit ==
    returned.status = "resolved" /\ returned.svc = "services"
        => returned.value =
             SliceLast(cachedData["services"][returned.symbol], HISTORY_LIMIT)

\* The step is StockChart.fetchStockData resuming after its await.
ChartResumes == chartAwaits # <<>> /\ chartAwaits' = Tail(chartAwaits)

\* C6: a response StockChart resumes on after the symbol prop has moved on
\* to another symbol is discarded: no state update is queued for it, so
\* stockData and the series of the chart stay with the newer symbol.
C6_StaleResponseDiscarded ==
    [][(ChartResumes /\ mounted /\ Head(chartAwaits).symbol # symbol)
         => /\ scheduled' = scheduled
            /\ stockData' = stockData
            /\ series' = series]_vars

---------------------------------------------------------------------------
(* Properties of calculateHeikinAshi (specification SpecHA).  Derived prices *)
(* are in quarters, so 10.25 is 41 and x/2 = y reads x = 2*y.               *)

\* C7: haOpen[0] = open[0] and, for i > 0, haOpen[i] is the mean of the
\* previous derived open and close; the second derived open of the scenario
\* bars is 10.25.
C7_OpenFromPreviousDerived ==
    haDone =>
        /\ \A i \in DOMAIN haOut :
              IF i = 1 THEN haOut[1].open = 4 * haIn[1].open
              ELSE 2 * haOut[i].open = haOut[i-1].open + haOut[i-1].close
        /\ haIn = ScenarioBars => haOut[2].open = 41

\* C8: the result has the length of the input (0 included) and, index by
\* index, the input's time and volume.
C8_SameLengthTimeVolume ==
    haDone =>
        /\ DOMAIN haOut = DOMAIN haIn
        /\ \A i \in DOMAIN haOut :
              /\ haOut[i].time = haIn[i].time
              /\ haOut[i].volume = haIn[i].volume

C8_Witness ==
    /\ haDone
    /\ Len(haIn) = 2
    /\ haIn[1].volume # haIn[2].volume
    /\ Len(haOut) = 2

\* C9: every derived bar has low <= open <= high and low <= close <= high.
C9_OpenCloseWithinRange ==
    haDone =>
        \A i \in DOMAIN haOut :
            /\ haOut[i].low <= haOut[i].open
            /\ haOut[i].open <= haOut[i].high
            /\ haOut[i].low <= haOut[i].close
            /\ haOut[i].close <= haOut[i].high

\* A derived open above the source bar's high: the range had to be widened.
C9_Witness ==
    /\ haDone
    /\ \E i \in DOMAIN haOut :
          /\ i \in DOMAIN haIn
          /\ haOut[i].open > 4 * haIn[i].high
          /\ haOut[i].high = haOut[i].open

\* C10: haClose[i] = (open+high+low+close)/4 of the source bar, haHigh[i] =
\* max(high[i], haOpen[i], haClose[i]), haLow[i] = min(low[i], haOpen[i],
\* haClose[i]), hence haHigh[i] >= high[i] and haLow[i] <= low[i]; the first
\* scenario bar becomes open 10, close 10.5, high 12, low 9.
C10_CloseHighLow ==
    haDone =>
        /\ DOMAIN haOut = DOMAIN haIn
        /\ \A i \in DOMAIN haOut :
              LET d == haIn[i]
                  b == haOut[i]
              IN  /\ b.close = d.open + d.high + d.low + d.close
                  /\ b.high = Max3(4 * d.high, b.open, b.close)
                  /\ b.low = Min3(4 * d.low, b.open, b.close)
                  /\ b.high >= 4 * d.high
                  /\ b.low <= 4 * d.low
        /\ haIn = ScenarioBars =>
              /\ haOut[1].open = 40
              /\ haOut[1].close = 42
              /\ haOut[1].high = 48
              /\ haOut[1].low = 36

C10_Witness ==
    /\ haDone
    /\ haIn = ScenarioBars
    /\ haOut[1].close = 42
    /\ haOut[2].close = 46

---------------------------------------------------------------------------
(* Properties of calculateAnchoredVWAP (specification SpecVWAP).  The      *)
(* contract's formulas are evaluated in doubles, in the order they are     *)
(* written, and compared with exact fractions where they state equalities  *)
(* of real numbers.                                                        *)

\* 0-based index of the first bar of the anchored window, as the contract
\* states it: max(0, len(bars) - anchorDays).
WindowStart == Max2(0, Len(vwIn) - vwDays)

\* (high + low + close) / 3 of bar d, in doubles.
TypicalOf(d) == DoubleOver(DoubleOf(d.high + d.low + d.close), 3)

\* Sums over the bars a+1..b (1-based), in doubles and from left to right,
\* of typicalPrice * volume and of typicalPrice; the integer sums of volume
\* and of high + low + close.
RECURSIVE SumTPV(_, _, _)
SumTPV(bars, a, b) ==
    IF b <= a THEN DZero
    ELSE DoublePlus(SumTPV(bars, a, b - 1),
                    DoubleTimes(TypicalOf(bars[b]), bars[b].volume))

RECURSIVE SumTP(_, _, _)
SumTP(bars, a, b) ==
    IF b <= a THEN DZero
    ELSE DoublePlus(SumTP(bars, a, b - 1), TypicalOf(bars[b]))

RECURSIVE SumVolume(_, _, _)
SumVolume(bars, a, b) ==
    IF b <= a THEN 0 ELSE SumVolume(bars, a, b - 1) + bars[b].volume

RECURSIVE SumTP3(_, _, _)
SumTP3(bars, a, b) ==
    IF b <= a THEN 0
    ELSE SumTP3(bars, a, b - 1)
            + bars[b].high + bars[b].low + bars[b].close

\* Subtraction and comparison of naturals of any size.
RECURSIVE SubBorrow(_, _, _, _)
SubBorrow(a, b, i, c) ==
    IF i > Len(a) THEN <<>>
    ELSE LET t == a[i] - (IF i <= Len(b) THEN b[i] ELSE 0) - c
         IN  <<IF t < 0 THEN t + Limb ELSE t>>
                \o SubBorrow(a, b, i + 1, IF t < 0 THEN 1 ELSE 0)

\* a - b for a >= b
SubBig(a, b) == StripHigh(SubBorrow(a, b, 1, 0))

RECURSIVE CmpFrom(_, _, _)
CmpFrom(a, b, i) ==
    IF i = 0 THEN 0
    ELSE IF a[i] < b[i] THEN -1
    ELSE IF a[i] > b[i] THEN 1
    ELSE CmpFrom(a, b, i - 1)

\* -1, 0 or 1 as a < b, a = b or a > b
CmpBig(a, b) ==
    IF Len(a) < Len(b) THEN -1
    ELSE IF Len(a) > Len(b) THEN 1
    ELSE CmpFrom(a, b, Len(a))

\* The double x is within n * 2^-j, relatively, of the fraction p / q:
\* |x - p/q| * 2^j <= (p/q) * n, for integers p >= 0, q > 0, n > 0.
WithinRounding(x, p, q, n, j) ==
    /\ x.kind = "finite"
    /\ LET up   == Max2(x.e, 0)
           down == Max2(0 - x.e, 0)
           xq   == ShiftLeft(MulInt(x.m, q), up)
           pp   == ShiftLeft(BigOf(p), down)
           diff == IF CmpBig(xq, pp) >= 0 THEN SubBig(xq, pp)
                   ELSE SubBig(pp, xq)
       IN  CmpBig(ShiftLeft(diff, j), ShiftLeft(BigOf(p * n), down)) <= 0

\* C11: the result has exactly min(anchorDays, len(bars)) points; when
\* anchorDays exceeds len(bars) the anchor is index 0 and the result has one
\* point per bar, at the bar's time.
C11_LengthMinAnchorLen ==
    vwDone =>
        /\ Len(vwOut) = Min2(vwDays, Len(vwIn))
        /\ vwDays > Len(vwIn) =>
              /\ anchorIndex(vwIn, vwDays) = 0
              /\ DOMAIN vwOut = DOMAIN vwIn
              /\ \A i \in DOMAIN vwOut : vwOut[i].time = vwIn[i].time

C11_Witness ==
    /\ vwDone
    /\ Len(vwIn) = 2
    /\ vwDays = 3
    /\ Len(vwOut) = 2

\* C12: with a = max(0, len(bars) - anchorDays), point k (counted from 1)
\* has the time of bar a+k and the value
\* (sum of ((high+low+close)/3)*volume over a+1..a+k) / (sum of volume over
\* a+1..a+k), evaluated in doubles as written; the bars before the window
\* contribute nothing.
C12_PointIsCumulativeRatio ==
    vwDone =>
        \A k \in DOMAIN vwOut :
            LET a  == WindowStart
                cv == SumVolume(vwIn, a, a + k)
            IN  /\ vwOut[k].time = vwIn[a + k].time
                /\ cv > 0 =>
                      vwOut[k].value = DoubleOver(SumTPV(vwIn, a, a + k), cv)

\* A window of two bars of different positive volumes and different typical
\* prices, after a bar of positive volume that is left out.
C12_Witness ==
    /\ vwDone
    /\ Len(vwIn) = 3
    /\ vwDays = 2
    /\ Len(vwOut) = 2
    /\ vwIn[1].volume > 0
    /\ vwIn[2].volume > 0
    /\ vwIn[3].volume > vwIn[2].volume
    /\ vwIn[2].high + vwIn[2].low + vwIn[2].close
          # vwIn[3].high + vwIn[3].low + vwIn[3].close
    /\ vwOut[2].value.kind = "finite"
    /\ vwOut[2].value # vwOut[1].value

\* C13 as stated: with anchorDays = 1 and a last bar of positive volume the
\* result is one point, at the last bar's time, whose value is equal to that
\* bar's typical price (high+low+close)/3; whatever anchorDays is, the first
\* point is equal to the anchor bar's typical price when that bar's volume
\* is positive.
C13_FirstPointIsTypicalPrice ==
    vwDone =>
        /\ (vwDays = 1 /\ Len(vwIn) >= 1 /\ vwIn[Len(vwIn)].volume > 0) =>
              LET d == vwIn[Len(vwIn)]
              IN  /\ Len(vwOut) = 1
                  /\ vwOut[1].time = d.time
                  /\ vwOut[1].value = TypicalOf(d)
        /\ (Len(vwIn) >= 1 /\ vwIn[WindowStart + 1].volume > 0) =>
              LET d == vwIn[WindowStart + 1]
              IN  /\ Len(vwOut) >= 1
                  /\ vwOut[1].time = d.time
                  /\ vwOut[1].value = TypicalOf(d)

\* C13, amended: with anchorDays = 1 and a last bar of positive volume the
\* result is one point, at the last bar's time; whatever anchorDays is, the
\* first point is at the anchor bar's time; and when that bar's volume is
\* positive its value is the bar's typical price (high+low+close)/3 up to
\* floating-point rounding: the relative difference is at most 2^-50.  On
\* the two scenario bars with anchorDays = 1 the one point is on 2024-01-02
\* and within that distance of 35/3.
C13_FirstPointNearTypicalPrice ==
    vwDone =>
        /\ (vwDays = 1 /\ Len(vwIn) >= 1 /\ vwIn[Len(vwIn)].volume > 0) =>
              LET d == vwIn[Len(vwIn)]
              IN  /\ Len(vwOut) = 1
                  /\ vwOut[1].time = d.time
                  /\ WithinRounding(vwOut[1].value,
                                    d.high + d.low + d.close, 3, 1, 50)
        /\ (Len(vwIn) >= 1 /\ vwIn[WindowStart + 1].volume > 0) =>
              LET d == vwIn[WindowStart + 1]
              IN  /\ Len(vwOut) >= 1
                  /\ vwOut[1].time = d.time
                  /\ WithinRounding(vwOut[1].value,
                                    d.high + d.low + d.close, 3, 1, 50)
        /\ (vwIn = ScenarioBars /\ vwDays = 1) =>
              /\ Len(vwOut) = 1
              /\ vwOut[1].time = 19724
              /\ WithinRounding(vwOut[1].value, 35, 3, 1, 50)

\* The scenario with anchorDays = 1: the one point is not the double
\* nearest to 35/3.
C13_Witness ==
    /\ vwDone
    /\ vwIn = ScenarioBars
    /\ vwDays = 1
    /\ Len(vwOut) = 1
    /\ vwOut[1].value.kind = "finite"
    /\ vwOut[1].value # TypicalOf(vwIn[2])

\* C14: a zero cumulative volume from the anchor bar through bar k does not
\* make the call fail: all min(anchorDays, len(bars)) points are returned,
\* point k is the non-finite 0/0, and every later point whose cumulative
\* volume is positive is the finite cumulativeTPV / cumulativeVolume.
C14_ZeroVolumeNotPropagated ==
    vwDone =>
        /\ Len(vwOut) = Min2(vwDays, Len(vwIn))
        /\ \A k \in DOMAIN vwOut :
              LET a  == WindowStart
                  cv == SumVolume(vwIn, a, a + k)
              IN  IF cv = 0
                  THEN vwOut[k].value.kind = "NaN"
                  ELSE /\ vwOut[k].value.kind = "finite"
                       /\ vwOut[k].value
                             = DoubleOver(SumTPV(vwIn, a, a + k), cv)

\* The anchor bar has volume 0, the next one has not.
C14_Witness ==
    /\ vwDone
    /\ Len(vwOut) >= 2
    /\ vwOut[1].value.kind = "NaN"
    /\ vwOut[2].value.kind = "finite"
    /\ vwOut[2].value.m # <<>>

\* The bars of the anchored window all have the same positive volume.
EqualPositiveVolumes ==
    /\ Len(vwIn) >= 1
    /\ \A j \in (WindowStart + 1)..Len(vwIn) :
          /\ vwIn[j].volume > 0
          /\ vwIn[j].volume = vwIn[WindowStart + 1].volume

\* C15 as stated: when all bars of the anchored window have the same
\* positive volume, value k is equal to the arithmetic mean of the typical
\* prices of the first k bars of the window.
C15_EqualVolumesGiveMean ==
    (vwDone /\ EqualPositiveVolumes) =>
        /\ Len(vwOut) = Len(vwIn) - WindowStart
        /\ \A k \in DOMAIN vwOut :
              vwOut[k].value
                 = DoubleOver(SumTP(vwIn, WindowStart, WindowStart + k), k)

\* C15, amended: when all bars of the anchored window have the same
\* positive volume, value k is the arithmetic mean of the typical prices of
\* the first k bars of the window up to floating-point rounding: the
\* relative difference is at most (k + 2) * 2^-52; so is the last value with
\* respect to the mean over the whole window.
C15_EqualVolumesNearMean ==
    (vwDone /\ EqualPositiveVolumes) =>
        /\ Len(vwOut) = Len(vwIn) - WindowStart
        /\ \A k \in DOMAIN vwOut :
              WithinRounding(vwOut[k].value,
                             SumTP3(vwIn, WindowStart, WindowStart + k),
                             3 * k, k + 2, 52)

\* Three bars of equal volume whose typical prices are not all the same.
C15_Witness ==
    /\ vwDone
    /\ EqualPositiveVolumes
    /\ Len(vwOut) = 3
    /\ vwIn[WindowStart + 1].high + vwIn[WindowStart + 1].low
          + vwIn[WindowStart + 1].close
          # vwIn[Len(vwIn)].high + vwIn[Len(vwIn)].low + vwIn[Len(vwIn)].close

---------------------------------------------------------------------------
(* Properties of StockChart.updateChart (specification SpecChart).  A      *)
(* non-empty stockData is the sequence updateChart was last given: the     *)
(* render that commits it runs the [stockData] effect, and so updateChart, *)
(* on it.                                                                  *)

\* seq has the times of the last Len(seq) elements of data, in order.
TimesOfTail(seq, data) ==
    /\ Len(seq) <= Len(data)
    /\ \A i \in DOMAIN seq :
          seq[i].time = data[Len(data) - Len(seq) + i].time

\* updateChart has run on a non-empty stockData.
Charted == Len(stockData) > 0 /\ ~effectDue

\* C17 (as claimed): for a non-empty sequence given to updateChart, each of
\* the four derived series has the length of the source sequence and its
\* time at every index.
C17_AllSeriesSameLength ==
    Charted =>
        \A name \in {"candlestick", "volume", "vwap1", "vwap2"} :
            /\ Len(series[name]) = Len(stockData)
            /\ \A i \in DOMAIN series[name] :
                  series[name][i].time = stockData[i].time

\* C17 (amended): the Heikin-Ashi and volume series have the length of the
\* source sequence and its time at every index; the VWAP series of window w
\* (365 and 100) has min(w, N) points, with the times of the last min(w, N)
\* source bars in order.
C17_SeriesFollowSourceSlice ==
    Charted =>
        /\ \A name \in {"candlestick", "volume"} :
              /\ Len(series[name]) = Len(stockData)
              /\ TimesOfTail(series[name], stockData)
        /\ Len(series.vwap1) = Min2(365, Len(stockData))
        /\ TimesOfTail(series.vwap1, stockData)
        /\ Len(series.vwap2) = Min2(100, Len(stockData))
        /\ TimesOfTail(series.vwap2, stockData)

\* A sequence longer than both windows.
C17_Witness ==
    /\ Charted
    /\ Len(stockData) > 365
    /\ Len(series.candlestick) = Len(stockData)
    /\ Len(series.volume) = Len(stockData)
    /\ Len(series.vwap1) = 365
    /\ Len(series.vwap2) = 100

\* C18: histogram point i has the time and the volume of source bar i, and
\* the up colour exactly when that bar has close >= open, else the down
\* colour; there is no third colour, and close = open gives the up colour.
C18_VolumeColorFromSourceBar ==
    Charted =>
        /\ Len(series.volume) = Len(stockData)
        /\ \A i \in DOMAIN series.volume :
              LET d == stockData[i]
                  p == series.volume[i]
              IN  /\ p.time = d.time
                  /\ p.value = d.volume
                  /\ p.color \in {"up", "down"}
                  /\ p.color = "up" <=> d.close >= d.open
                  /\ d.close = d.open => p.color = "up"

\* Both colours occur, and a bar with close = open is an up bar although its
\* Heikin-Ashi candle closes below its open.
C18_Witness ==
    /\ Charted
    /\ \E i \in DOMAIN series.volume : series.volume[i].color = "down"
    /\ \E i \in DOMAIN series.volume :
          /\ stockData[i].close = stockData[i].open
          /\ series.volume[i].color = "up"
          /\ series.candlestick[i].close < series.candlestick[i].open

\* C19: with N >= 1 the length of the Heikin-Ashi series, the visible range
\* is from max(0, N - 365) to N - 1, so 0 <= from <= to = N - 1 and the
\* range spans at most 365 points.
C19_VisibleRange ==
    Charted =>
        LET N == Len(series.candlestick)
        IN  /\ N >= 1
            /\ series.range.from = Max2(0, N - 365)
            /\ series.range.to = N - 1
            /\ 0 <= series.range.from
            /\ series.range.from <= series.range.to
            /\ series.range.to - series.range.from + 1 <= 365

\* A series longer than 365 points: the range starts after index 0.
C19_Witness ==
    /\ Charted
    /\ Len(stockData) > 365
    /\ series.range.from > 0
    /\ series.range.to = Len(stockData) - 1

\* C20: when the call for the current symbol has returned an empty sequence
\* and the component has rendered with it and run its effects, the four
\* series the chart holds are empty, also after another symbol's data has
\* been displayed.
C20_EmptyInputEmptySeries ==
    (/\ mounted
     /\ shownSymbol = symbol
     /\ stockData = <<>>
     /\ ~effectDue)
        => \A name \in {"candlestick", "volume", "vwap1", "vwap2"} :
              series[name] = <<>>

---------------------------------------------------------------------------
(* Further properties of the bar store *)

\* C21 (specification SpecCase): the cache key is the symbol exactly as
\* supplied.  A call for a symbol that has no entry of its own issues its own
\* request, whatever entries there are under other spellings; a call served
\* from the cache is served from the entry under its own spelling; and every
\* symbol a call has resolved for has an entry of its own and had a request
\* of its own.
C21_CaseSensitiveKey ==
    /\ [](\A svc \in Services, s \in CaseSymbols :
            <<svc, s>> \in succeeded =>
                /\ s \in DOMAIN cachedData[svc]
                /\ requests[svc][s] >= 1)
    /\ [][nCalls' = nCalls + 1 =>
            IF Len(pending') > Len(pending)
            THEN LET c == pending'[Len(pending')]
                 IN  /\ c.symbol \notin DOMAIN cachedData[c.svc]
                     /\ requests'[c.svc][c.symbol]
                           = requests[c.svc][c.symbol] + 1
            ELSE /\ returned'.symbol \in DOMAIN cachedData[returned'.svc]
                 /\ returned'.value
                       = cachedData[returned'.svc][returned'.symbol]
         ]_vars

\* Both spellings have been fetched from one service: two requests, two
\* entries, holding different sequences.
C21_Witness ==
    \E svc \in Services :
        /\ DOMAIN cachedData[svc] = CaseSymbols
        /\ requests[svc]["SMH"] = 1
        /\ requests[svc]["smh"] = 1
        /\ cachedData[svc]["SMH"] # cachedData[svc]["smh"]
        /\ Len(cachedData[svc]["SMH"]) > 0
        /\ Len(cachedData[svc]["smh"]) > 0

\* C22 (specification Spec): a cache entry, once written, is never removed,
\* written again or replaced by a different sequence.
C22_EntryWrittenOnce ==
    [][\A svc \in Services, s \in Symbols :
          s \in DOMAIN cachedData[svc] =>
              /\ s \in DOMAIN cachedData'[svc]
              /\ cachedData'[svc][s] = cachedData[svc][s]
              /\ ~(/\ Settles
                   /\ returned'.status = "resolved"
                   /\ returned'.svc = svc
                   /\ returned'.symbol = s)
      ]_vars

\* The step builds a prompt: App.getAIOpinion resumes on a resolved call, or
\* getAIOpinion is called.
PromptBuilt ==
    \/ /\ appAwaits # <<>>
       /\ appAwaits' = Tail(appAwaits)
       /\ Head(appAwaits).status = "resolved"
    \/ aiNCalls' = aiNCalls + 1

\* The step runs updateChart: the [stockData] effect on a sequence that is
\* not empty.
ChartUpdated == effectDue /\ ~effectDue' /\ mounted' /\ Len(stockData) > 0

\* C23 (specification SpecInputs): no operation changes a bar sequence once
\* it is cached.  The array StockChart holds as stockData, which is the
\* array the cache holds, is at all times the sequence the provider's
\* result was formatted to, bar for bar, and so is every cache entry.  A
\* step that runs updateChart (with calculateHeikinAshi and
\* calculateAnchoredVWAP) and a step that builds an AI prompt leave
\* stockData and the cache as they were; the series are the new sequences
\* the transforms return, and the prompt is the text of the sequence.
C23_InputsUnchanged ==
    /\ [](shownSymbol # "none" =>
            /\ Len(stockData) \in ChartResultLengths
            /\ stockData
                  = formattedData(RawResults(shownSymbol, Len(stockData))))
    /\ [](\A s \in DOMAIN cachedData["root"] :
            cachedData["root"][s]
               = formattedData(RawResults(s, Len(cachedData["root"][s]))))
    /\ [][series' # series => cachedData' = cachedData]_vars
    /\ [][ChartUpdated =>
            /\ stockData' = stockData
            /\ cachedData' = cachedData
            /\ series'.candlestick = calculateHeikinAshi(stockData)
            /\ series'.vwap1 = calculateAnchoredVWAP(stockData, 365)
            /\ series'.vwap2 = calculateAnchoredVWAP(stockData, 100)]_vars
    /\ [][PromptBuilt =>
            /\ stockData' = stockData
            /\ cachedData' = cachedData
            /\ fullUserPrompt'.by # "none"
            /\ \E s \in Symbols, L \in ChartResultLengths :
                  fullUserPrompt'.text[3]
                     = stringify(formattedData(RawResults(s, L)))]_vars

\* updateChart has run on a cached sequence and made Heikin-Ashi bars that
\* differ from the source bars; App.getAIOpinion has fetched the symbol and
\* resumed, and getAIOpinion was then given the cached array: the prompt is
\* the text of the sequence, and the source bars are still in place.
C23_Witness ==
    /\ mounted
    /\ ~effectDue
    /\ shownSymbol = symbol
    /\ Len(stockData) >= 2
    /\ series.candlestick = calculateHeikinAshi(stockData)
    /\ series.candlestick[2].open # 4 * stockData[2].open
    /\ cachedData["root"][shownSymbol] = stockData
    /\ returned.asks
    /\ returned.status = "resolved"
    /\ returned.viaCache
    /\ appAwaits = <<>>
    /\ fullUserPrompt.by = "getAIOpinion"
    /\ fullUserPrompt.text[3] = stringify(stockData)

\* C24 (specification SpecLive): every fetchStockData call eventually
\* completes, also when the provider never responds.
C24_EveryCallCompletes ==
    \A n \in 1..MaxCalls : (Len(pending) = n) ~> (Len(pending) < n)

\* C29 (specification SpecChart): when the call of StockChart is rejected,
\* its continuation queues no state update: stockData keeps its value, and
\* the series the chart holds do not change.
C29_ChartErrorSwallowed ==
    [][(ChartResumes /\ Head(chartAwaits).status = "rejected")
          => /\ scheduled' = scheduled
             /\ stockData' = stockData
             /\ series' = series
             /\ UNCHANGED <<mounted, symbol>>]_vars

\* The call for the current symbol was rejected and StockChart has resumed
\* on it while another symbol's data is displayed: that data is still there.
C29_Witness ==
    /\ mounted
    /\ returned.chart
    /\ returned.inst = chartInstance
    /\ returned.status = "rejected"
    /\ returned.symbol = symbol
    /\ chartAwaits = <<>>
    /\ ~scheduled.set
    /\ ~effectDue
    /\ shownSymbol # symbol
    /\ Len(stockData) > 0
    /\ Len(series.candlestick) = Len(stockData)
    /\ pending = <<>>

---------------------------------------------------------------------------
(* Properties of useAIOpinions and getAIOpinion (specification SpecAI) *)

\* The step is fetchOpinion resuming after its await of getAIOpinion.
HookResumes == hookAwaits # <<>> /\ hookAwaits' = Tail(hookAwaits)

\* The step is a fetchOpinion call for a model that is not in AI_MODELS: it
\* runs through catch and finally without an await.
HookFailsAtOnce ==
    /\ aiNCalls' = aiNCalls + 1
    /\ hookReturned' # hookReturned \/ error' = "AI model not found"
    /\ Len(aiPending') = Len(aiPending)
    /\ aiReturned' = aiReturned

\* A fetchOpinion call is in flight: its getAIOpinion call is suspended, or
\* has settled and fetchOpinion has yet to resume.
HookInFlight ==
    \/ \E i \in DOMAIN aiPending : aiPending[i].caller = "hook"
    \/ hookAwaits # <<>>

\* The number of entries of list for model name m.
EntriesFor(list, m) ==
    Cardinality({i \in DOMAIN list : list[i].modelName = m})

\* The entries of list that are not for model name m, in order.
OthersThan(list, m) == SelectSeq(list, LAMBDA o : o.modelName # m)

\* The number of requests sent so far.
RECURSIVE RequestsSent(_, _)
RequestsSent(log, names) ==
    IF names = {} THEN 0
    ELSE LET m == CHOOSE x \in names : TRUE
         IN  Len(log[m]) + RequestsSent(log, names \ {m})

\* C25: the opinions list holds at most one entry per model name; a
\* fetchOpinion call for model m that resumes on a resolved getAIOpinion
\* leaves exactly one entry for m, the new one, at the end of the list, and
\* the entries of the other models as they were, in their order.
C25_OneOpinionPerModel ==
    /\ [](\A m \in ModelNames : EntriesFor(opinions, m) <= 1)
    /\ [][(HookResumes /\ Head(hookAwaits).status = "resolved") =>
            LET m == Head(hookAwaits).model
            IN  /\ Len(opinions') >= 1
                /\ opinions'[Len(opinions')]
                     = [modelName |-> m,
                        opinion |-> Head(hookAwaits).opinion]
                /\ EntriesFor(opinions', m) = 1
                /\ OthersThan(opinions', m) = OthersThan(opinions, m)
         ]_vars

\* Two calls for Gemini have finished, the second one successfully: the list
\* holds one Gemini entry.
C25_Witness ==
    /\ Len(aiRequested["Gemini"]) = 2
    /\ aiPending = <<>>
    /\ hookAwaits = <<>>
    /\ hookReturned.model = "Gemini"
    /\ hookReturned.status = "resolved"
    /\ opinions = <<[modelName |-> "Gemini", opinion |-> <<"Bearish">>]>>

\* C26: isLoading is true exactly when a fetchOpinion call is in flight.
C26_LoadingWhileInFlight ==
    isLoading <=> HookInFlight

\* C27: a fetchOpinion call that fails, at once or when it resumes on a
\* rejected getAIOpinion, leaves the opinions list as it is, sets error to
\* the failure's message, ends with isLoading false, and its promise is
\* fulfilled, not rejected; a fetchOpinion call that starts a request has
\* reset error to null.
C27_FailureSetsError ==
    /\ [][(HookResumes /\ Head(hookAwaits).status = "rejected") =>
            /\ opinions' = opinions
            /\ error' = Head(hookAwaits).message
            /\ error' # "null"
            /\ isLoading' = FALSE
            /\ hookReturned'.status = "rejected"
            /\ hookReturned'.promise = "fulfilled"
         ]_vars
    /\ [][HookFailsAtOnce =>
            /\ opinions' = opinions
            /\ error' = "AI model not found"
            /\ isLoading' = FALSE
            /\ hookReturned'.status = "rejected"
            /\ hookReturned'.promise = "fulfilled"
         ]_vars
    /\ [][(aiNCalls' = aiNCalls + 1 /\ Len(aiPending') > Len(aiPending)
              /\ aiPending'[Len(aiPending')].caller = "hook") =>
            /\ error' = "null"
            /\ isLoading' = TRUE
            /\ opinions' = opinions
         ]_vars

\* A call has failed with an HTTP error after another one had succeeded.
C27_Witness ==
    /\ hookReturned.status = "rejected"
    /\ hookReturned.message = "HTTP error"
    /\ hookReturned.promise = "fulfilled"
    /\ hookAwaits = <<>>
    /\ error = "HTTP error"
    /\ ~isLoading
    /\ Len(opinions) = 1

\* C28: getAIOpinion leaves the model configuration unchanged, and all
\* requests for one model go to the URL the first one went to.
C28_EndpointUnchanged ==
    \A m \in ModelNames :
        /\ apiEndpoint[m] = ConfiguredEndpoint(m)
        /\ \A i \in DOMAIN aiRequested[m] :
              aiRequested[m][i] = aiRequested[m][1]

\* C30: a call with a model name outside the supported ones is rejected with
\* 'Unsupported AI model' and sends no request; a call for a supported model
\* sends exactly one request; an opinion that is returned is not the empty
\* string; and a call whose response has an empty or missing opinion text
\* returns the 'No opinion provided by <model>.' text.
C30_UnsupportedOrOneRequest ==
    /\ []((aiReturned.status # "none" /\ aiReturned.caller = "direct") =>
            IF aiReturned.model \in {"OpenAI", "Groq", "Claude", "Gemini",
                                     "Mistral"}
            THEN aiReturned.sent = 1
            ELSE /\ aiReturned.status = "rejected"
                 /\ aiReturned.message = "Unsupported AI model"
                 /\ aiReturned.sent = 0)
    /\ [](aiReturned.status = "resolved" =>
            aiReturned.opinion # EmptyString)
    /\ [](aiReturned.text \in {"empty", "missing"}
            => /\ aiReturned.status = "resolved"
               /\ aiReturned.opinion
                    = <<"No opinion provided by ", aiReturned.model, ".">>)
    /\ [][RequestsSent(aiRequested', ModelNames)
            = RequestsSent(aiRequested, ModelNames)
                + (IF Len(aiPending') > Len(aiPending) THEN 1 ELSE 0)]_vars
    /\ [](\A m \in ModelNames \ {"OpenAI", "Groq", "Claude", "Gemini",
                                 "Mistral"} : aiRequested[m] = <<>>)

====
